---- MODULE Spec2Model ----
(***************************************************************************)
(* Tasks-service API: the authorization gate, the token issuer/verifier    *)
(* and the ownership-scoped repositories (User, Category, Tag, Task,       *)
(* TaskTag), modelled as a state machine over the relational store.        *)
(*                                                                         *)
(* One action is one HTTP request handled to completion (decorator,        *)
(* handler, service call, commit or rollback, response).  The external     *)
(* collaborators (bcrypt, the JWT library, the ORM session, the email      *)
(* validator) are modelled by the contract their call sites rely on.       *)
(* Time is counted in whole seconds, the resolution of the exp/iat claims  *)
(* of a token.                                                             *)
(***************************************************************************)
EXTENDS Integers, Sequences, FiniteSets, TLC

VARIABLES
    users,      \* table "user":     id -> row
    categories, \* table "category": id -> row
    tags,       \* table "tag":      id -> row
    tasks,      \* table "task":     id -> row
    task_tags,  \* table "task_tag": set of <<task_id, tag_id>>
    nextId,     \* number of primary keys generated so far, per table
    now,        \* the wall clock, in seconds
    issued,     \* tokens handed out so far, each with the ttl it was issued with
    pending,    \* register requests in flight (between their check and their commit)
    resp        \* the last request and its response

vars == <<users, categories, tags, tasks, task_tags, nextId, now, issued, pending, resp>>
store == <<users, categories, tags, tasks, task_tags>>

---------------------------------------------------------------------------
(* Bounds of the model *)

MaxUsers == 3       \* user rows ever created (primary keys are never reused)
MaxTime == 3        \* the clock stops here
MaxTokens == 1      \* tokens the clients keep
MaxInflight == 2    \* register requests in flight at once

---------------------------------------------------------------------------
(* Values *)

Absent == "<absent>"    \* a key that is not in the JSON body
Null == "<null>"        \* JSON null / Python None, for strings
NoId == 0               \* None, for identifiers
NoTime == -1            \* None, for timestamps

ADMIN == "admin"
USER == "user"
RoleEnum == {ADMIN, USER}


\* pydantic EmailStr: the strings of the model that are e-mail addresses
EmailStr(s) == s \in {"al@x.com", "bob@x.com", "root@x.com"}

---------------------------------------------------------------------------
(* Password hasher *)

hash_password(password) == <<"$2b$", password>>

check_password(password, hashed_password) == hashed_password = <<"$2b$", password>>

---------------------------------------------------------------------------
(* Token issuer / verifier *)

JWT_SECRET_KEY == "your-jwt-secret-key"
JWT_ACCESS_TOKEN_EXPIRES == 43200
SecondsPerHour == 3600

Payload(t) == [sub |-> t.sub, exp |-> t.exp, iat |-> t.iat, type |-> t.type]

\* HS256 signature of a payload under a key
Sign(key, payload) == <<key, payload>>

jwt_encode(payload, key) ==
    [sub |-> payload.sub, exp |-> payload.exp, iat |-> payload.iat,
     type |-> payload.type, sig |-> Sign(key, payload)]

\* the signature is not verified
jwt_decode_NoSignature(token, key, t) ==
    IF token.exp <= t THEN [ok |-> FALSE, sub |-> NoId]
    ELSE [ok |-> TRUE, sub |-> token.sub]

\* the expiry is not verified
jwt_decode_NoExpiry(token, key, t) ==
    IF token.sig # Sign(key, Payload(token)) THEN [ok |-> FALSE, sub |-> NoId]
    ELSE [ok |-> TRUE, sub |-> token.sub]

\* jwt.decode: the signature must be the key's, and exp must lie in the future
jwt_decode(token, key, t) ==
    IF token.sig # Sign(key, Payload(token)) THEN [ok |-> FALSE, sub |-> NoId]
    ELSE IF token.exp <= t THEN [ok |-> FALSE, sub |-> NoId]
    ELSE [ok |-> TRUE, sub |-> token.sub]

\* expires_delta = NoTime stands for "None": the configured default applies
create_access_token(user_id, expires_delta, t) ==
    LET delta == IF expires_delta = NoTime
                 THEN JWT_ACCESS_TOKEN_EXPIRES * SecondsPerHour
                 ELSE expires_delta
    IN jwt_encode([sub |-> user_id, exp |-> t + delta, iat |-> t, type |-> "access"],
                  JWT_SECRET_KEY)

decode_token(token, t) == jwt_decode(token, JWT_SECRET_KEY, t)

get_current_user_id_from_token(token, t) ==
    LET payload == decode_token(token, t)
    IN IF ~payload.ok THEN NoId
       ELSE IF payload.sub = NoId THEN NoId
       ELSE payload.sub

get_current_user_from_token(us, token, t) ==
    LET user_id == get_current_user_id_from_token(token, t)
    IN IF user_id # NoId /\ user_id \in DOMAIN us THEN user_id ELSE NoId

---------------------------------------------------------------------------
(* Authorization gate *)

NoToken == [sub |-> NoId, exp |-> 0, iat |-> 0, type |-> "", sig |-> <<>>]

\* Shapes of the Authorization header:
\*   "absent"        no header
\*   "basic"         "Basic <token>", or anything else not starting with "Bearer "
\*   "bearer_empty"  "Bearer " with nothing, or with another space, after it
\*   "bearer"        "Bearer <token>"
\*   "bearer_extra"  "Bearer <token> <more>"
HeaderForms == {"absent", "basic", "bearer_empty", "bearer", "bearer_extra"}

\* startswith("Bearer ") and split(" ")[1]; NoToken stands for None and for ""
get_token_from_header(hdr) ==
    IF hdr.form \in {"absent", "basic"} THEN NoToken
    ELSE IF hdr.form = "bearer_empty" THEN NoToken
    ELSE hdr.token

\* The part of login_required that runs before the wrapped function:
\* the resolved user id, or NoId when the request is aborted with 401
login_required(us, hdr, t) ==
    LET token == get_token_from_header(hdr)
    IN IF token = NoToken THEN NoId
       ELSE get_current_user_from_token(us, token, t)

\* the role is not looked at
admin_required_NoRole(us, hdr, t) ==
    IF login_required(us, hdr, t) = NoId THEN 401 ELSE 0

\* admin_required: 401 from the login check, then 403 from the role check, else 0
admin_required(us, hdr, t) ==
    LET uid == login_required(us, hdr, t)
    IN IF uid = NoId THEN 401
       ELSE IF us[uid].role # ADMIN THEN 403
       ELSE 0

\* Tokens a client can put in a header: the issued ones, the issued ones with
\* an edited payload (the signature no longer fits) and self-signed ones
KnownTokens == {i.token : i \in issued}

OtherUser(u) == (u % MaxUsers) + 1

ForgedTokens ==
    {[tk EXCEPT !.sub = OtherUser(tk.sub)] : tk \in KnownTokens}
    \cup {[tk EXCEPT !.exp = tk.exp + MaxTime + 1] : tk \in KnownTokens}
    \cup {jwt_encode([sub |-> 1, exp |-> MaxTime + 1, iat |-> 0, type |-> "access"],
                     "attacker-key")}

\* what follows "Basic " is never looked at
Headers ==
    {[form |-> f, token |-> NoToken] : f \in {"absent", "basic", "bearer_empty"}}
    \cup {[form |-> "bearer_extra", token |-> tk] : tk \in KnownTokens}
    \cup {[form |-> "bearer", token |-> tk] : tk \in KnownTokens \cup ForgedTokens}

\* no header, or a token the service issued
PlainHeaders ==
    {[form |-> "absent", token |-> NoToken]}
    \cup {[form |-> "bearer", token |-> tk] : tk \in KnownTokens}

\* The client keeps the new token if it has room for it; if not, it drops the
\* new token or one of those it holds
Keep(tk, ttl) ==
    LET new == [token |-> tk, ttl |-> ttl]
    IN IF new \in issued \/ Cardinality(issued) < MaxTokens
       THEN {issued \cup {new}}
       ELSE {issued} \cup {(issued \ {old}) \cup {new} : old \in issued}

---------------------------------------------------------------------------
(* Requests and responses *)

Malformed == "<malformed>"  \* a body that is not JSON

\* op: the route; status: the HTTP status; ran: the route function was entered;
\* caller: the user the gate resolved; data: the "data" member of the JSON
\* answer, as a list of dictionaries; token: the access token of the answer;
\* total, pages: the counters of a list answer
ListResponse(op, status, ran, caller, data, token, total, pages) ==
    [op |-> op, status |-> status, ran |-> ran, caller |-> caller,
     data |-> data, token |-> token, total |-> total, pages |-> pages]

Response(op, status, ran, caller, data, token) ==
    ListResponse(op, status, ran, caller, data, token, 0, 0)

NoResponse == Response("", 0, FALSE, NoId, <<>>, NoToken)

Provided(v) == v \notin {Absent, Null, Malformed}

---------------------------------------------------------------------------
(* User model and repository *)

\* only the username is declared unique
UserConstraints_UsernameOnly(us) ==
    \A u1, u2 \in DOMAIN us : u1 # u2 => us[u1].username # us[u2].username

\* unique=True on user.username and user.email, checked by the database at commit
UserConstraints(us) ==
    \A u1, u2 \in DOMAIN us :
        u1 # u2 => /\ us[u1].username # us[u2].username
                   /\ us[u1].email # us[u2].email

User(username, email, password) ==
    [username |-> username, email |-> email, password_hash |-> hash_password(password),
     role |-> USER, last_login |-> NoTime]

User_to_dict(us, id) ==
    [kind |-> "user", id |-> id, username |-> us[id].username, email |-> us[id].email,
     role |-> us[id].role, last_login |-> us[id].last_login]

get_user_by_id(us, user_id) == IF user_id \in DOMAIN us THEN user_id ELSE NoId

\* the rows a filter matches; first() answers one of them, or None
get_user_by_username(us, username) == {u \in DOMAIN us : us[u].username = username}

get_user_by_email(us, email) == {u \in DOMAIN us : us[u].email = email}

\* register_user, the query: the rows with that username or that email
register_user_existing(us, username, email) ==
    {u \in DOMAIN us : us[u].username = username \/ us[u].email = email}

\* register_user, add and commit: the table after the insert, or the table as
\* it was when the commit raises IntegrityError and is rolled back
register_user_commit(us, id, username, email, password) ==
    LET added == [u \in DOMAIN us \cup {id} |->
                    IF u = id THEN User(username, email, password) ELSE us[u]]
    IN IF UserConstraints(added) THEN [ok |-> TRUE, users |-> added]
       ELSE [ok |-> FALSE, users |-> us]

\* authenticate_user, the query: username or email equal to the login name
authenticate_user_matches(us, username) ==
    {u \in DOMAIN us : us[u].username = username \/ us[u].email = username}

\* a role member of the body reaches setattr
update_user_SetsRole(us, id, data) ==
    [ok |-> TRUE,
     users |-> [us EXCEPT ![id].role = IF "role" \in DOMAIN data /\ data.role \in RoleEnum
                                        THEN data.role ELSE @]]

\* update_user: the password first, then every other non-null field,
\* then the commit; a failed commit is rolled back
update_user(us, id, data) ==
    LET row0 == us[id]
        row1 == IF Provided(data.password)
                THEN [row0 EXCEPT !.password_hash = hash_password(data.password)]
                ELSE row0
        row2 == IF Provided(data.username)
                THEN [row1 EXCEPT !.username = data.username] ELSE row1
        row3 == IF Provided(data.email)
                THEN [row2 EXCEPT !.email = data.email] ELSE row2
        changed == [us EXCEPT ![id] = row3]
    IN IF UserConstraints(changed) THEN [ok |-> TRUE, users |-> changed]
       ELSE [ok |-> FALSE, users |-> us]

\* list_users: newest first, then offset and limit
RECURSIVE NewestFirst(_)
NewestFirst(ids) ==
    IF ids = {} THEN <<>>
    ELSE LET m == CHOOSE x \in ids : \A y \in ids : y <= x
         IN <<m>> \o NewestFirst(ids \ {m})

Page(seq, page, per_page) ==
    LET first == (page - 1) * per_page + 1
        last == IF page * per_page < Len(seq) THEN page * per_page ELSE Len(seq)
    IN IF first > Len(seq) THEN <<>> ELSE SubSeq(seq, first, last)

list_users(us, page, per_page) ==
    [items |-> Page(NewestFirst(DOMAIN us), page, per_page),
     total |-> Cardinality(DOMAIN us)]

---------------------------------------------------------------------------
(* Request validation (pydantic schemas) *)

\* UserBase / UserCreate: username, email, role, password and confirm_password
\* are all required
UserCreate(b) ==
    /\ Provided(b.username) /\ Len(b.username) >= 3 /\ Len(b.username) <= 64
    /\ Provided(b.email) /\ EmailStr(b.email)
    /\ b.role \in RoleEnum
    /\ Provided(b.password) /\ Len(b.password) >= 8
    /\ Provided(b.confirm_password) /\ Len(b.confirm_password) >= 8
    /\ b.confirm_password = b.password

UserLogin(b) == Provided(b.username) /\ Provided(b.password)

\* UserUpdate: every field optional; a field that is given and not null is checked
UserUpdate(b) ==
    /\ Provided(b.username) => Len(b.username) >= 3 /\ Len(b.username) <= 64
    /\ Provided(b.email) => EmailStr(b.email)
    /\ Provided(b.password) => Len(b.password) >= 8

\* "if not data": the body is an empty object
EmptyBody(b) == \A k \in DOMAIN b : b[k] = Absent

IsMalformed(b) == \E k \in DOMAIN b : b[k] = Malformed

UsernameInputs == {"alice", "bob@x.com"}
EmailInputs == {"al@x.com", "bob@x.com"}

RegisterBody(u, e, p, r, c) ==
    [username |-> u, email |-> e, password |-> p, role |-> r, confirm_password |-> c]

RegisterBodies ==
    {RegisterBody(u, e, "password123", rc[1], rc[2]) :
        u \in UsernameInputs, e \in EmailInputs,
        rc \in {<<Absent, Absent>>, <<USER, "password123">>}}
    \cup {RegisterBody("alice", "al@x.com", "password123", ADMIN, "password123"),
          RegisterBody("alice", "al@x.com", "password123", USER, "newpassword"),
          RegisterBody("al", "al@x.com", "password123", USER, "password123"),
          RegisterBody("alice", "nomail", "password123", USER, "password123"),
          RegisterBody("alice", "al@x.com", "short", USER, "short"),
          RegisterBody("root", "al@x.com", "password123", USER, "password123"),
          RegisterBody("alice", "root@x.com", "password123", USER, "password123"),
          RegisterBody(Absent, Absent, Absent, Absent, Absent),
          RegisterBody(Malformed, Malformed, Malformed, Malformed, Malformed)}

LoginBodies ==
    {[username |-> u, password |-> p] :
        u \in {"alice", "bob@x.com", "al@x.com", "root", Absent},
        p \in {"password123", "newpassword"}}

UpdateBody(u, e, p) == [username |-> u, email |-> e, password |-> p]

UpdateBodies ==
    {UpdateBody(u, Absent, Absent) : u \in {"bob@x.com", "root", "al"}}
    \cup {UpdateBody(Absent, e, Absent) : e \in {"bob@x.com", "nomail"}}
    \cup {UpdateBody(Null, Absent, "newpassword"),
          UpdateBody(Absent, Absent, Absent),
          UpdateBody(Malformed, Malformed, Malformed)}

---------------------------------------------------------------------------
(* Cascades of the relational model *)

OwnedBy(table, uid) == {x \in DOMAIN table : table[x].user_id = uid}

Without(table, ids) == [x \in DOMAIN table \ ids |-> table[x]]

\* User.categories and User.tags without the cascade: only the user's tasks
\* and their associations go with the user
delete_user_TasksOnly(uid) ==
    /\ users' = Without(users, {uid})
    /\ UNCHANGED <<categories, tags>>
    /\ tasks' = Without(tasks, OwnedBy(tasks, uid))
    /\ task_tags' = {p \in task_tags : p[1] \notin OwnedBy(tasks, uid)}

\* db.session.delete(user) and commit: User.tasks, User.categories and
\* User.tags cascade the delete; Task.task_tags and Tag.task_tags cascade it
\* to the associations; Category.tasks (no cascade) clears the category
\* reference of every task that still points to a deleted category
delete_user(uid) ==
    LET delTasks == OwnedBy(tasks, uid)
        delCats == OwnedBy(categories, uid)
        delTags == OwnedBy(tags, uid)
    IN /\ users' = Without(users, {uid})
       /\ categories' = Without(categories, delCats)
       /\ tags' = Without(tags, delTags)
       /\ tasks' = [x \in DOMAIN tasks \ delTasks |->
                      IF tasks[x].category_id \in delCats
                      THEN [tasks[x] EXCEPT !.category_id = NoId]
                      ELSE tasks[x]]
       /\ task_tags' = {p \in task_tags : p[1] \notin delTasks /\ p[2] \notin delTags}

---------------------------------------------------------------------------
(* User routes *)

Answer(op, status, ran, caller, data, token) ==
    resp' = Response(op, status, ran, caller, data, token)

\* POST /register
Register(b) ==
    /\ UNCHANGED <<categories, tags, tasks, task_tags, now, pending>>
    /\ IF IsMalformed(b) \/ EmptyBody(b) \/ ~UserCreate(b)
       THEN /\ Answer("register", 400, TRUE, NoId, <<>>, NoToken)
            /\ UNCHANGED <<users, nextId, issued>>
       ELSE IF get_user_by_username(users, b.username) # {}
               \/ get_user_by_email(users, b.email) # {}
       THEN /\ Answer("register", 409, TRUE, NoId, <<>>, NoToken)
            /\ UNCHANGED <<users, nextId, issued>>
       ELSE IF register_user_existing(users, b.username, b.email) # {}
       THEN /\ Answer("register", 500, TRUE, NoId, <<>>, NoToken)
            /\ UNCHANGED <<users, nextId, issued>>
       ELSE /\ nextId.user < MaxUsers
            /\ LET id == nextId.user + 1
                   c == register_user_commit(users, id, b.username, b.email, b.password)
                   tk == create_access_token(id, NoTime, now)
               IN /\ nextId' = [nextId EXCEPT !.user = id]
                  /\ users' = c.users
                  /\ IF c.ok
                     THEN /\ Answer("register", 201, TRUE, NoId, <<>>, tk)
                          /\ issued' \in Keep(tk, NoTime)
                     ELSE /\ Answer("register", 500, TRUE, NoId, <<>>, NoToken)
                          /\ UNCHANGED issued

\* POST /login
Login(b) ==
    /\ UNCHANGED <<categories, tags, tasks, task_tags, nextId, pending, now>>
    /\ IF IsMalformed(b) \/ EmptyBody(b) \/ ~UserLogin(b)
       THEN /\ Answer("login", 400, TRUE, NoId, <<>>, NoToken)
            /\ UNCHANGED <<users, issued>>
       ELSE LET matches == authenticate_user_matches(users, b.username)
            IN IF matches = {}
               THEN /\ Answer("login", 401, TRUE, NoId, <<>>, NoToken)
                    /\ UNCHANGED <<users, issued>>
               ELSE \E u \in matches :
                      IF ~check_password(b.password, users[u].password_hash)
                      THEN /\ Answer("login", 401, TRUE, NoId, <<>>, NoToken)
                           /\ UNCHANGED <<users, issued>>
                      ELSE LET tk == create_access_token(u, NoTime, now)
                           IN /\ users' = [users EXCEPT ![u].last_login = now]
                              /\ Answer("login", 200, TRUE, NoId, <<>>, tk)
                              /\ issued' \in Keep(tk, NoTime)

\* GET /me
GetMe(h) ==
    /\ UNCHANGED <<store, nextId, now, issued, pending>>
    /\ LET uid == login_required(users, h, now)
       IN IF uid = NoId
          THEN Answer("get_current_user", 401, FALSE, NoId, <<>>, NoToken)
          ELSE Answer("get_current_user", 200, TRUE, uid, <<User_to_dict(users, uid)>>,
                      NoToken)

\* PUT /me
UpdateMe(h, b) ==
    /\ UNCHANGED <<categories, tags, tasks, task_tags, nextId, now, issued, pending>>
    /\ LET uid == login_required(users, h, now)
       IN IF uid = NoId
          THEN /\ Answer("update_current_user", 401, FALSE, NoId, <<>>, NoToken)
               /\ UNCHANGED users
          ELSE IF IsMalformed(b)
          \* request.json raises inside the decorator's try block
          THEN /\ Answer("update_current_user", 401, TRUE, uid, <<>>, NoToken)
               /\ UNCHANGED users
          ELSE IF EmptyBody(b) \/ ~UserUpdate(b)
          THEN /\ Answer("update_current_user", 400, TRUE, uid, <<>>, NoToken)
               /\ UNCHANGED users
          ELSE LET c == update_user(users, uid, b)
               IN /\ users' = c.users
                  /\ IF c.ok
                     THEN Answer("update_current_user", 200, TRUE, uid,
                                 <<User_to_dict(c.users, uid)>>, NoToken)
                     ELSE Answer("update_current_user", 500, TRUE, uid, <<>>, NoToken)

\* DELETE /me
DeleteMe(h) ==
    /\ UNCHANGED <<nextId, now, issued, pending>>
    /\ LET uid == login_required(users, h, now)
       IN IF uid = NoId
          THEN /\ Answer("delete_current_user", 401, FALSE, NoId, <<>>, NoToken)
               /\ UNCHANGED store
          ELSE /\ delete_user(uid)
               /\ Answer("delete_current_user", 200, TRUE, uid, <<>>, NoToken)

\* GET /users (admin)
GetUsers(h, page, per_page) ==
    /\ UNCHANGED <<store, nextId, now, issued, pending>>
    /\ LET code == admin_required(users, h, now)
           uid == login_required(users, h, now)
           l == list_users(users, page, per_page)
       IN IF code # 0
          THEN Answer("get_users", code, FALSE, uid, <<>>, NoToken)
          ELSE Answer("get_users", 200, TRUE, uid,
                      [i \in 1..Len(l.items) |-> User_to_dict(users, l.items[i])], NoToken)

\* GET /users/<id> (admin)
GetUser(h, user_id) ==
    /\ UNCHANGED <<store, nextId, now, issued, pending>>
    /\ LET code == admin_required(users, h, now)
           uid == login_required(users, h, now)
       IN IF code # 0
          THEN Answer("get_user", code, FALSE, uid, <<>>, NoToken)
          ELSE IF get_user_by_id(users, user_id) = NoId
          THEN Answer("get_user", 404, TRUE, uid, <<>>, NoToken)
          ELSE Answer("get_user", 200, TRUE, uid, <<User_to_dict(users, user_id)>>, NoToken)

\* PUT /users/<id> (admin)
UpdateUserById(h, user_id, b) ==
    /\ UNCHANGED <<categories, tags, tasks, task_tags, nextId, now, issued, pending>>
    /\ LET code == admin_required(users, h, now)
           uid == login_required(users, h, now)
       IN IF code # 0
          THEN /\ Answer("update_user_by_id", code, FALSE, uid, <<>>, NoToken)
               /\ UNCHANGED users
          ELSE IF IsMalformed(b) \/ EmptyBody(b)
          THEN /\ Answer("update_user_by_id", 400, TRUE, uid, <<>>, NoToken)
               /\ UNCHANGED users
          ELSE IF get_user_by_id(users, user_id) = NoId
          THEN /\ Answer("update_user_by_id", 404, TRUE, uid, <<>>, NoToken)
               /\ UNCHANGED users
          ELSE IF ~UserUpdate(b)
          THEN /\ Answer("update_user_by_id", 400, TRUE, uid, <<>>, NoToken)
               /\ UNCHANGED users
          ELSE LET c == update_user(users, user_id, b)
               IN /\ users' = c.users
                  /\ IF c.ok
                     THEN Answer("update_user_by_id", 200, TRUE, uid,
                                 <<User_to_dict(c.users, user_id)>>, NoToken)
                     ELSE Answer("update_user_by_id", 500, TRUE, uid, <<>>, NoToken)

\* DELETE /users/<id> (admin)
DeleteUserById(h, user_id) ==
    /\ UNCHANGED <<nextId, now, issued, pending>>
    /\ LET code == admin_required(users, h, now)
           uid == login_required(users, h, now)
       IN IF code # 0
          THEN /\ Answer("delete_user_by_id", code, FALSE, uid, <<>>, NoToken)
               /\ UNCHANGED store
          ELSE IF get_user_by_id(users, user_id) = NoId
          THEN /\ Answer("delete_user_by_id", 404, TRUE, uid, <<>>, NoToken)
               /\ UNCHANGED store
          ELSE /\ delete_user(user_id)
               /\ Answer("delete_user_by_id", 200, TRUE, uid, <<>>, NoToken)

---------------------------------------------------------------------------
(* The clock, and a token issued with an explicit lifetime *)

Tick ==
    /\ now < MaxTime
    /\ now' = now + 1
    /\ UNCHANGED <<store, nextId, issued, pending, resp>>

TtlInputs == {1, 2}

\* create_access_token(user.id, expires_delta) called for an existing user
IssueToken(u, ttl) ==
    /\ u \in DOMAIN users
    /\ LET tk == create_access_token(u, ttl, now)
       IN /\ issued' \in Keep(tk, ttl)
          /\ Answer("create_access_token", 0, TRUE, NoId, <<>>, tk)
    /\ UNCHANGED <<store, nextId, now, pending>>

---------------------------------------------------------------------------
(* POST /register as three steps of a worker, so that requests interleave:  *)
(* the handler's duplicate check, register_user's query, and the commit     *)

Idle == [pc |-> "idle", username |-> Absent, email |-> Absent, password |-> Absent]

Workers == 1..MaxInflight

RegisterStart(w, b) ==
    /\ pending[w].pc = "idle"
    /\ UNCHANGED <<store, nextId, now, issued>>
    /\ IF IsMalformed(b) \/ EmptyBody(b) \/ ~UserCreate(b)
       THEN /\ Answer("register", 400, TRUE, NoId, <<>>, NoToken)
            /\ UNCHANGED pending
       ELSE IF get_user_by_username(users, b.username) # {}
               \/ get_user_by_email(users, b.email) # {}
       THEN /\ Answer("register", 409, TRUE, NoId, <<>>, NoToken)
            /\ UNCHANGED pending
       ELSE /\ pending' = [pending EXCEPT ![w] =
                             [pc |-> "checked", username |-> b.username,
                              email |-> b.email, password |-> b.password]]
            /\ UNCHANGED resp

RegisterService(w) ==
    /\ pending[w].pc = "checked"
    /\ UNCHANGED <<store, nextId, now, issued>>
    /\ IF register_user_existing(users, pending[w].username, pending[w].email) # {}
       THEN /\ Answer("register", 500, TRUE, NoId, <<>>, NoToken)
            /\ pending' = [pending EXCEPT ![w] = Idle]
       ELSE /\ pending' = [pending EXCEPT ![w].pc = "adding"]
            /\ UNCHANGED resp

RegisterCommit(w) ==
    /\ pending[w].pc = "adding"
    /\ nextId.user < MaxUsers
    /\ UNCHANGED <<categories, tags, tasks, task_tags, now>>
    /\ pending' = [pending EXCEPT ![w] = Idle]
    /\ LET id == nextId.user + 1
           c == register_user_commit(users, id, pending[w].username, pending[w].email,
                                     pending[w].password)
           tk == create_access_token(id, NoTime, now)
       IN /\ nextId' = [nextId EXCEPT !.user = id]
          /\ users' = c.users
          /\ IF c.ok
             THEN /\ Answer("register", 201, TRUE, NoId, <<>>, tk)
                  /\ issued' \in Keep(tk, NoTime)
             ELSE /\ Answer("register", 500, TRUE, NoId, <<>>, NoToken)
                  /\ UNCHANGED issued

---------------------------------------------------------------------------
(* Initial states and specifications *)

EmptyTable == [x \in {} |-> NoId]

\* an administrator exists only by seeding: no route creates one
Root == [username |-> "root", email |-> "root@x.com",
         password_hash |-> hash_password("password123"), role |-> ADMIN,
         last_login |-> NoTime]

RootId == 1

\* the freshly migrated and seeded database
InitUsers ==
    /\ users = [u \in {RootId} |-> Root]
    /\ categories = EmptyTable
    /\ tags = EmptyTable
    /\ tasks = EmptyTable
    /\ task_tags = {}
    /\ nextId = [user |-> 1, category |-> 0, tag |-> 0, task |-> 0]
    /\ now = 0
    /\ issued = {}
    /\ pending = [w \in Workers |-> Idle]
    /\ resp = NoResponse

NextUsers ==
    \/ \E b \in RegisterBodies : Register(b)
    \/ \E b \in LoginBodies : Login(b)
    \/ \E h \in PlainHeaders, b \in UpdateBodies : UpdateMe(h, b)
    \/ \E h \in PlainHeaders : DeleteMe(h)

SpecUsers == InitUsers /\ [][NextUsers]_vars

\* the bodies of the interleaved requests
RaceRegisterBodies ==
    {RegisterBody("alice", "al@x.com", "password123", USER, "password123"),
     RegisterBody("alice", "bob@x.com", "password123", USER, "password123"),
     RegisterBody("bob@x.com", "al@x.com", "password123", USER, "password123"),
     RegisterBody("root", "bob@x.com", "password123", USER, "password123"),
     RegisterBody("al", "al@x.com", "password123", USER, "password123")}

RaceUpdateBodies ==
    {UpdateBody("alice", Absent, Absent), UpdateBody("bob@x.com", Absent, Absent),
     UpdateBody(Absent, "al@x.com", Absent), UpdateBody(Absent, "bob@x.com", Absent),
     UpdateBody("root", "root@x.com", Absent)}

NextRace ==
    \/ \E w \in Workers, b \in RaceRegisterBodies : RegisterStart(w, b)
    \/ \E w \in Workers : RegisterService(w)
    \/ \E w \in Workers : RegisterCommit(w)
    \/ \E h \in Headers, b \in RaceUpdateBodies : UpdateMe(h, b)
    \/ \E h \in Headers : DeleteMe(h)

SpecRace == InitUsers /\ [][NextRace]_vars

\* the seeded database after "alice" has registered
Alice == User("alice", "al@x.com", "password123")

AliceId == 2

InitTwoUsers ==
    /\ users = [u \in {RootId, AliceId} |-> IF u = RootId THEN Root ELSE Alice]
    /\ categories = EmptyTable
    /\ tags = EmptyTable
    /\ tasks = EmptyTable
    /\ task_tags = {}
    /\ nextId = [user |-> 2, category |-> 0, tag |-> 0, task |-> 0]
    /\ now = 0
    /\ issued = {}
    /\ pending = [w \in Workers |-> Idle]
    /\ resp = NoResponse

\* the administration of users
AdminLoginBodies ==
    {[username |-> u, password |-> "password123"] : u \in {"root", "alice"}}

AdminUpdateBodies ==
    {UpdateBody("bob@x.com", Absent, Absent), UpdateBody(Absent, "bob@x.com", Absent),
     UpdateBody("root", Absent, Absent), UpdateBody(Malformed, Malformed, Malformed)}

PageInputs == {1, 2}
PerPageInputs == {1, 20}

NextAdmin ==
    \/ \E b \in AdminLoginBodies : Login(b)
    \/ \E h \in Headers, page \in PageInputs, per_page \in PerPageInputs :
         GetUsers(h, page, per_page)
    \/ \E h \in Headers, u \in 1..MaxUsers : GetUser(h, u)
    \/ \E h \in Headers, u \in 1..MaxUsers, b \in AdminUpdateBodies :
         UpdateUserById(h, u, b)
    \/ \E h \in Headers, u \in 1..MaxUsers : DeleteUserById(h, u)

SpecAdmin == InitTwoUsers /\ [][NextAdmin]_vars

\* the gate as time passes: tokens with a short lifetime, users that vanish
GateUpdateBodies ==
    {UpdateBody("bob@x.com", Absent, Absent), UpdateBody("al", Absent, Absent),
     UpdateBody(Absent, Absent, Absent), UpdateBody(Malformed, Malformed, Malformed)}

NextGate ==
    \/ Tick
    \/ \E u \in 1..MaxUsers, ttl \in TtlInputs : IssueToken(u, ttl)
    \/ \E h \in Headers : GetMe(h)
    \/ \E h \in Headers, b \in GateUpdateBodies : UpdateMe(h, b)
    \/ \E h \in Headers : DeleteMe(h)

SpecGate == InitTwoUsers /\ [][NextGate]_vars

---------------------------------------------------------------------------
(* Registration and login *)

\* The body holds exactly a username, an email and a password
ExactlyThreeFields(b) ==
    /\ Provided(b.username) /\ Provided(b.email) /\ Provided(b.password)
    /\ b.role = Absent /\ b.confirm_password = Absent

Unused(b) ==
    \A u \in DOMAIN users : users[u].username # b.username /\ users[u].email # b.email

\* C7: a POST /register whose body holds exactly a username, an email and a
\* password (both unused, password of 8 characters or more) returns 201 with a
\* token, creates exactly one user, of role "user", and the token resolves to
\* that user.
C7_RegisterThreeFields ==
    [][\A b \in RegisterBodies :
         (/\ ExactlyThreeFields(b) /\ Len(b.password) >= 8 /\ EmailStr(b.email)
          /\ Len(b.username) >= 3 /\ Unused(b) /\ Register(b))
         => /\ resp'.status = 201
            /\ \E id \in DOMAIN users' \ DOMAIN users :
                 /\ DOMAIN users' = DOMAIN users \cup {id}
                 /\ users'[id].role = USER
                 /\ users'[id].username = b.username
                 /\ get_current_user_from_token(users', resp'.token, now) = id]_vars

\* C8: for every user u, whoever else exists, POST /login with u's username
\* and u's current password returns 200 with a token whose subject is u and
\* records u's last login; with another password it returns 401, issues no
\* token and changes nothing in the store.
C8_LoginByUsername ==
    [][\A u \in DOMAIN users : \A b \in LoginBodies :
         (b.username = users[u].username /\ Login(b))
         => IF check_password(b.password, users[u].password_hash)
            THEN /\ resp'.status = 200
                 /\ resp'.token.sub = u
                 /\ users'[u].last_login = now
            ELSE /\ resp'.status = 401
                 /\ resp'.token = NoToken
                 /\ UNCHANGED store]_vars

\* another user already holds the username or the email the body asks for
TakenByOther(us, id, b) ==
    \E v \in DOMAIN us \ {id} :
        \/ Provided(b.username) /\ us[v].username = b.username
        \/ Provided(b.email) /\ us[v].email = b.email

\* C10: a registration, or a user update (PUT /me), that would give a user a
\* username or an email another user holds is answered 409 and leaves every
\* user record unchanged.
C10_DuplicateIs409 ==
    [][/\ \A b \in RegisterBodies :
            (UserCreate(b) /\ TakenByOther(users, NoId, b) /\ Register(b))
            => resp'.status = 409 /\ UNCHANGED users
       /\ \A h \in PlainHeaders : \A b \in UpdateBodies :
            (/\ login_required(users, h, now) # NoId
             /\ ~IsMalformed(b) /\ UserUpdate(b)
             /\ TakenByOther(users, login_required(users, h, now), b)
             /\ UpdateMe(h, b))
            => resp'.status = 409 /\ UNCHANGED users]_vars

---------------------------------------------------------------------------
(* Uniqueness of usernames and e-mail addresses *)

\* C9: in every state reachable by any interleaving of register, update-user
\* and delete-user requests, no two users share a username and no two users
\* share an email.
C9_UniqueUsernameEmail ==
    \A u1 \in DOMAIN users : \A u2 \in DOMAIN users \ {u1} :
        /\ users[u1].username # users[u2].username
        /\ users[u1].email # users[u2].email

\* two registrations passed their checks, and the later commit was refused
C9_Witness ==
    /\ Cardinality(DOMAIN users) >= 2
    /\ resp.op = "register"
    /\ resp.status = 500

---------------------------------------------------------------------------
(* The authorization gate *)

\* the token carries the server's signature and has not expired
Verifies(tk) == tk.sig = Sign(JWT_SECRET_KEY, Payload(tk)) /\ tk.exp > now

\* the request carries "Bearer <token>", the token verifies and its subject
\* is a user that exists now
Authenticated(h) ==
    /\ h.form \in {"bearer", "bearer_extra"}
    /\ Verifies(h.token)
    /\ h.token.sub \in DOMAIN users

C4_AdminRoutes ==
    [][\A h \in Headers :
         (\/ /\ resp'.op = "get_users"
             /\ \E page \in PageInputs, per_page \in PerPageInputs :
                  GetUsers(h, page, per_page)
          \/ resp'.op = "get_user" /\ \E u \in 1..MaxUsers : GetUser(h, u)
          \/ resp'.op = "delete_user_by_id" /\ \E u \in 1..MaxUsers : DeleteUserById(h, u)
          \/ /\ resp'.op = "update_user_by_id"
             /\ \E u \in 1..MaxUsers, b \in AdminUpdateBodies : UpdateUserById(h, u, b))
         => /\ ~Authenticated(h) => resp'.status = 401
            /\ Authenticated(h) /\ users[h.token.sub].role # ADMIN => resp'.status = 403
            /\ resp'.ran <=> Authenticated(h) /\ users[h.token.sub].role = ADMIN
            /\ resp'.status \in {401, 403} => resp'.data = <<>> /\ UNCHANGED store]_vars

\* an authenticated user who is not an administrator was refused
C4_Witness ==
    /\ resp.op \in {"get_users", "get_user", "update_user_by_id", "delete_user_by_id"}
    /\ resp.status = 403
    /\ resp.caller \in DOMAIN users
    /\ users[resp.caller].role = USER

\* C6: a token issued for user u with ttl T is accepted by the gate, and
\* resolves to u, at every time before issue time + T, and is rejected at
\* every time after issue time + T, for as long as u exists.
C6_TokenLifetime ==
    [][\A i \in issued :
         (/\ i.ttl # NoTime /\ i.token.sub \in DOMAIN users
          /\ GetMe([form |-> "bearer", token |-> i.token]))
         => /\ now < i.token.iat + i.ttl
                => resp'.status = 200 /\ resp'.caller = i.token.sub
            /\ now > i.token.iat + i.ttl => resp'.status = 401]_vars

\* a token has outlived its ttl, its user still exists, and a request was refused
C6_Witness ==
    /\ resp.op = "get_current_user"
    /\ resp.status = 401
    /\ \E i \in issued :
         /\ i.ttl # NoTime /\ i.token.sub \in DOMAIN users
         /\ now > i.token.iat + i.ttl
    /\ \A i \in issued : i.token.sub \in DOMAIN users /\ now > i.token.iat + i.ttl


---------------------------------------------------------------------------
(* Ordering of query results *)

\* the orders in which the database may return a set of rows
Perms(S) ==
    {p \in [1..Cardinality(S) -> S] : \A i, j \in DOMAIN p : i # j => p[i] # p[j]}

\* ORDER BY key ASC / DESC: rows with equal keys come in any order
Ordered(S, key, sort_order) ==
    {p \in Perms(S) :
        \A i \in 1..(Cardinality(S) - 1) :
            IF sort_order = "desc" THEN key[p[i]] >= key[p[i + 1]]
            ELSE key[p[i]] <= key[p[i + 1]]}

\* the collation of the strings that occur as names and titles
Alphabet == <<"Errands", "Home", "Plan", "Ship", "Work", "later", "urgent">>

Collate(str) == CHOOSE i \in DOMAIN Alphabet : Alphabet[i] = str

\* rows are inserted one at a time, so created_at orders them as the model's
\* identifiers do
created_at(id) == id

\* "pages": (total + per_page - 1) // per_page
Pages(total, per_page) == (total + per_page - 1) \div per_page

---------------------------------------------------------------------------
(* Categories *)

MaxCategories == 2    \* category rows ever created

Category(user_id, name, description) ==
    [name |-> name, description |-> description, user_id |-> user_id]

Category_to_dict(cs, id) ==
    [kind |-> "category", id |-> id, name |-> cs[id].name,
     description |-> cs[id].description, user_id |-> cs[id].user_id]

\* the owner is not part of the filter
get_category_by_id_AnyOwner(cs, category_id, user_id) ==
    IF category_id \in DOMAIN cs THEN category_id ELSE NoId

\* Category.query.filter_by(id=category_id, user_id=user_id).first()
get_category_by_id(cs, category_id, user_id) ==
    IF category_id \in DOMAIN cs /\ cs[category_id].user_id = user_id
    THEN category_id ELSE NoId

\* the attributes of Category that the models can be ordered by here
CategorySortKey(cs, id, sort_by) ==
    IF sort_by = "name" THEN Collate(cs[id].name) ELSE created_at(id)

\* list_categories: the possible (page of rows, total) results
list_categories(cs, user_id, sort_by, sort_order, page, per_page) ==
    LET mine == OwnedBy(cs, user_id)
        orders == IF sort_by \in {"name", "created_at"}
                  THEN Ordered(mine, [c \in mine |-> CategorySortKey(cs, c, sort_by)], sort_order)
                  ELSE Perms(mine)
    IN {[items |-> Page(o, page, per_page), total |-> Cardinality(mine)] : o \in orders}

\* CategoryCreate: name 1..64 characters, description optional
CategoryCreate(b) ==
    /\ Provided(b.name) /\ Len(b.name) >= 1 /\ Len(b.name) <= 64
    /\ b.description # Malformed

\* CategoryUpdate: both optional, a given name has 1..64 characters
CategoryUpdate(b) ==
    /\ Provided(b.name) => (Len(b.name) >= 1 /\ Len(b.name) <= 64)
    /\ b.name # Malformed /\ b.description # Malformed

\* every attribute that is given is set, None included
update_category_SetsNone(row, b) ==
    [row EXCEPT !.name = IF b.name # Absent THEN b.name ELSE @,
                !.description = IF b.description # Absent THEN b.description ELSE @]

\* update_category: attributes given as None are skipped
update_category(row, b) ==
    [row EXCEPT !.name = IF Provided(b.name) THEN b.name ELSE @,
                !.description = IF Provided(b.description) THEN b.description ELSE @]

CategoryBody(name, description) == [name |-> name, description |-> description]

\* "not data": no member at all
EmptyCategoryBody(b) == b.name = Absent /\ b.description = Absent

MalformedCategoryBody == CategoryBody(Malformed, Malformed)


\* POST /categories
CreateCategory(h, b) ==
    /\ UNCHANGED <<users, tags, tasks, task_tags, now, issued, pending>>
    /\ LET uid == login_required(users, h, now)
           id == nextId.category + 1
       IN IF uid = NoId
          THEN /\ Answer("create_new_category", 401, FALSE, NoId, <<>>, NoToken)
               /\ UNCHANGED <<categories, nextId>>
          ELSE IF b = MalformedCategoryBody
          \* request.get_json() raises inside login_required's try
          THEN /\ Answer("create_new_category", 401, TRUE, uid, <<>>, NoToken)
               /\ UNCHANGED <<categories, nextId>>
          ELSE IF EmptyCategoryBody(b) \/ ~CategoryCreate(b)
          THEN /\ Answer("create_new_category", 400, TRUE, uid, <<>>, NoToken)
               /\ UNCHANGED <<categories, nextId>>
          ELSE /\ nextId.category < MaxCategories
               /\ categories' = (id :> Category(uid, b.name,
                                       IF Provided(b.description) THEN b.description
                                       ELSE Null)) @@ categories
               /\ nextId' = [nextId EXCEPT !.category = id]
               /\ Answer("create_new_category", 201, TRUE, uid,
                         <<Category_to_dict(categories', id)>>, NoToken)

\* GET /categories
GetCategories(h, sort_by, sort_order, page, per_page) ==
    /\ UNCHANGED <<store, nextId, now, issued, pending>>
    /\ LET uid == login_required(users, h, now)
       IN IF uid = NoId
          THEN Answer("get_categories", 401, FALSE, NoId, <<>>, NoToken)
          ELSE \E r \in list_categories(categories, uid, sort_by, sort_order,
                                        page, per_page) :
                 resp' = ListResponse("get_categories", 200, TRUE, uid,
                                      [i \in DOMAIN r.items |->
                                          Category_to_dict(categories, r.items[i])],
                                      NoToken, r.total, Pages(r.total, per_page))

\* GET /categories/<category_id>
GetCategory(h, category_id) ==
    /\ UNCHANGED <<store, nextId, now, issued, pending>>
    /\ LET uid == login_required(users, h, now)
           category == get_category_by_id(categories, category_id, uid)
       IN IF uid = NoId
          THEN Answer("get_category", 401, FALSE, NoId, <<>>, NoToken)
          ELSE IF category = NoId
          THEN Answer("get_category", 404, TRUE, uid, <<>>, NoToken)
          ELSE Answer("get_category", 200, TRUE, uid,
                      <<Category_to_dict(categories, category)>>, NoToken)

\* PUT /categories/<category_id>
UpdateCategoryById(h, category_id, b) ==
    /\ UNCHANGED <<users, tags, tasks, task_tags, nextId, now, issued, pending>>
    /\ LET uid == login_required(users, h, now)
           category == get_category_by_id(categories, category_id, uid)
       IN IF uid = NoId
          THEN /\ Answer("update_category_by_id", 401, FALSE, NoId, <<>>, NoToken)
               /\ UNCHANGED categories
          ELSE IF category = NoId
          THEN /\ Answer("update_category_by_id", 404, TRUE, uid, <<>>, NoToken)
               /\ UNCHANGED categories
          ELSE IF b = MalformedCategoryBody
          THEN /\ Answer("update_category_by_id", 401, TRUE, uid, <<>>, NoToken)
               /\ UNCHANGED categories
          ELSE IF EmptyCategoryBody(b) \/ ~CategoryUpdate(b)
          THEN /\ Answer("update_category_by_id", 400, TRUE, uid, <<>>, NoToken)
               /\ UNCHANGED categories
          ELSE /\ categories' = [categories EXCEPT
                                   ![category] = update_category(@, b)]
               /\ Answer("update_category_by_id", 200, TRUE, uid,
                         <<Category_to_dict(categories', category)>>, NoToken)

\* Category.tasks with a delete cascade: the tasks go with the category
delete_category_WithTasks(ts, category) ==
    Without(ts, {x \in DOMAIN ts : ts[x].category_id = category})

\* the tasks keep the reference to the deleted category
delete_category_NoDetach(ts, category) == ts

\* db.session.delete(category) and commit: Category.tasks has no cascade, so
\* every task that points to the category has its category_id set to NULL
delete_category(ts, category) ==
    [x \in DOMAIN ts |-> IF ts[x].category_id = category
                         THEN [ts[x] EXCEPT !.category_id = NoId] ELSE ts[x]]

\* DELETE /categories/<category_id>
DeleteCategoryById(h, category_id) ==
    /\ UNCHANGED <<users, tags, task_tags, nextId, now, issued, pending>>
    /\ LET uid == login_required(users, h, now)
           category == get_category_by_id(categories, category_id, uid)
       IN IF uid = NoId
          THEN /\ Answer("delete_category_by_id", 401, FALSE, NoId, <<>>, NoToken)
               /\ UNCHANGED <<categories, tasks>>
          ELSE IF category = NoId
          THEN /\ Answer("delete_category_by_id", 404, TRUE, uid, <<>>, NoToken)
               /\ UNCHANGED <<categories, tasks>>
          ELSE /\ categories' = Without(categories, {category})
               /\ tasks' = delete_category(tasks, category)
               /\ Answer("delete_category_by_id", 200, TRUE, uid, <<>>, NoToken)


---------------------------------------------------------------------------
(* Tags *)

MaxTags == 2    \* tag rows ever created

Tag(user_id, name) == [name |-> name, user_id |-> user_id]

Tag_to_dict(gs, id) ==
    [kind |-> "tag", id |-> id, name |-> gs[id].name, user_id |-> gs[id].user_id]

\* the owner is not part of the filter
get_tag_by_id_AnyOwner(gs, tag_id, user_id) ==
    IF tag_id \in DOMAIN gs THEN tag_id ELSE NoId

\* Tag.query.filter_by(id=tag_id, user_id=user_id).first()
get_tag_by_id(gs, tag_id, user_id) ==
    IF tag_id \in DOMAIN gs /\ gs[tag_id].user_id = user_id THEN tag_id ELSE NoId

\* the name is looked up among the tags of every user
get_tag_by_name_AnyUser(gs, name, user_id) == {x \in DOMAIN gs : gs[x].name = name}

\* Tag.query.filter_by(name=name, user_id=user_id): the rows that match
get_tag_by_name(gs, name, user_id) ==
    {x \in DOMAIN gs : gs[x].name = name /\ gs[x].user_id = user_id}

TagSortKey(gs, id, sort_by) ==
    IF sort_by = "name" THEN Collate(gs[id].name) ELSE created_at(id)

\* list_tags: the possible (page of rows, total) results
list_tags(gs, user_id, sort_by, sort_order, page, per_page) ==
    LET mine == OwnedBy(gs, user_id)
        orders == IF sort_by \in {"name", "created_at"}
                  THEN Ordered(mine, [x \in mine |-> TagSortKey(gs, x, sort_by)], sort_order)
                  ELSE Perms(mine)
    IN {[items |-> Page(o, page, per_page), total |-> Cardinality(mine)] : o \in orders}

\* TaskTag.query.filter_by(tag_id=tag.id).count()
TagTaskCount(tts, tag_id) == Cardinality({p \in tts : p[2] = tag_id})

\* get_tag_stats: the user's tags, most used first
get_tag_stats(gs, tts, user_id) ==
    {[i \in DOMAIN o |-> [kind |-> "tag_stats", id |-> o[i], name |-> gs[o[i]].name,
                          user_id |-> gs[o[i]].user_id,
                          task_count |-> TagTaskCount(tts, o[i])]] :
        o \in Ordered(OwnedBy(gs, user_id),
                       [x \in OwnedBy(gs, user_id) |-> TagTaskCount(tts, x)], "desc")}

\* TagCreate: name required, 1..64 characters
TagCreate(b) == Provided(b.name) /\ Len(b.name) >= 1 /\ Len(b.name) <= 64

\* TagUpdate: name optional, 1..64 characters when given
TagUpdate(b) == Provided(b.name) => (Len(b.name) >= 1 /\ Len(b.name) <= 64)

TagBody(name) == [name |-> name]

\* request.get_json(silent=True) or {}: a body that is not JSON counts as {}
SilentJson(b) == IF b.name = Malformed THEN TagBody(Absent) ELSE b

\* POST /tags
CreateTag(h, body) ==
    /\ UNCHANGED <<users, categories, tasks, task_tags, now, issued, pending>>
    /\ LET uid == login_required(users, h, now)
           b == SilentJson(body)
           id == nextId.tag + 1
       IN IF uid = NoId
          THEN /\ Answer("create_new_tag", 401, FALSE, NoId, <<>>, NoToken)
               /\ UNCHANGED <<tags, nextId>>
          ELSE IF ~TagCreate(b)
          THEN /\ Answer("create_new_tag", 400, TRUE, uid, <<>>, NoToken)
               /\ UNCHANGED <<tags, nextId>>
          ELSE IF get_tag_by_name(tags, b.name, uid) # {}
          THEN /\ Answer("create_new_tag", 409, TRUE, uid, <<>>, NoToken)
               /\ UNCHANGED <<tags, nextId>>
          ELSE /\ nextId.tag < MaxTags
               /\ tags' = (id :> Tag(uid, b.name)) @@ tags
               /\ nextId' = [nextId EXCEPT !.tag = id]
               /\ Answer("create_new_tag", 201, TRUE, uid,
                         <<Tag_to_dict(tags', id)>>, NoToken)

\* GET /tags
GetTags(h, sort_by, sort_order, page, per_page) ==
    /\ UNCHANGED <<store, nextId, now, issued, pending>>
    /\ LET uid == login_required(users, h, now)
       IN IF uid = NoId
          THEN Answer("get_tags", 401, FALSE, NoId, <<>>, NoToken)
          ELSE \E r \in list_tags(tags, uid, sort_by, sort_order, page, per_page) :
                 resp' = ListResponse("get_tags", 200, TRUE, uid,
                                      [i \in DOMAIN r.items |->
                                          Tag_to_dict(tags, r.items[i])],
                                      NoToken, r.total, Pages(r.total, per_page))

\* GET /tags/stats
GetTagsStats(h) ==
    /\ UNCHANGED <<store, nextId, now, issued, pending>>
    /\ LET uid == login_required(users, h, now)
       IN IF uid = NoId
          THEN Answer("get_tags_stats", 401, FALSE, NoId, <<>>, NoToken)
          ELSE \E stats \in get_tag_stats(tags, task_tags, uid) :
                 Answer("get_tags_stats", 200, TRUE, uid, stats, NoToken)

\* GET /tags/<tag_id>
GetTag(h, tag_id) ==
    /\ UNCHANGED <<store, nextId, now, issued, pending>>
    /\ LET uid == login_required(users, h, now)
           tag == get_tag_by_id(tags, tag_id, uid)
       IN IF uid = NoId
          THEN Answer("get_tag", 401, FALSE, NoId, <<>>, NoToken)
          ELSE IF tag = NoId
          THEN Answer("get_tag", 404, TRUE, uid, <<>>, NoToken)
          ELSE Answer("get_tag", 200, TRUE, uid, <<Tag_to_dict(tags, tag)>>, NoToken)

\* PUT /tags/<tag_id>
UpdateTagById(h, tag_id, body) ==
    /\ UNCHANGED <<users, categories, tasks, task_tags, nextId, now, issued, pending>>
    /\ LET uid == login_required(users, h, now)
           tag == get_tag_by_id(tags, tag_id, uid)
           b == SilentJson(body)
       IN IF uid = NoId
          THEN /\ Answer("update_tag_by_id", 401, FALSE, NoId, <<>>, NoToken)
               /\ UNCHANGED tags
          ELSE IF tag = NoId
          THEN /\ Answer("update_tag_by_id", 404, TRUE, uid, <<>>, NoToken)
               /\ UNCHANGED tags
          ELSE IF ~TagUpdate(b)
          THEN /\ Answer("update_tag_by_id", 400, TRUE, uid, <<>>, NoToken)
               /\ UNCHANGED tags
          ELSE IF Provided(b.name) /\ b.name # tags[tag].name
                  /\ get_tag_by_name(tags, b.name, uid) # {}
          THEN /\ Answer("update_tag_by_id", 409, TRUE, uid, <<>>, NoToken)
               /\ UNCHANGED tags
          ELSE /\ tags' = [tags EXCEPT ![tag].name = IF Provided(b.name) THEN b.name
                                                     ELSE @]
               /\ Answer("update_tag_by_id", 200, TRUE, uid,
                         <<Tag_to_dict(tags', tag)>>, NoToken)

\* DELETE /tags/<tag_id> when the associations of the tag are left alone
DeleteTagById_NoCascade(h, tag_id) ==
    /\ UNCHANGED <<users, categories, tasks, task_tags, nextId, now, issued, pending>>
    /\ LET uid == login_required(users, h, now)
           tag == get_tag_by_id(tags, tag_id, uid)
       IN IF uid = NoId
          THEN /\ Answer("delete_tag_by_id", 401, FALSE, NoId, <<>>, NoToken)
               /\ UNCHANGED tags
          ELSE IF tag = NoId
          THEN /\ Answer("delete_tag_by_id", 404, TRUE, uid, <<>>, NoToken)
               /\ UNCHANGED tags
          ELSE /\ tags' = Without(tags, {tag})
               /\ Answer("delete_tag_by_id", 200, TRUE, uid, <<>>, NoToken)

\* DELETE /tags/<tag_id>: Tag.task_tags cascades the delete to the associations
DeleteTagById(h, tag_id) ==
    /\ UNCHANGED <<users, categories, tasks, nextId, now, issued, pending>>
    /\ LET uid == login_required(users, h, now)
           tag == get_tag_by_id(tags, tag_id, uid)
       IN IF uid = NoId
          THEN /\ Answer("delete_tag_by_id", 401, FALSE, NoId, <<>>, NoToken)
               /\ UNCHANGED <<tags, task_tags>>
          ELSE IF tag = NoId
          THEN /\ Answer("delete_tag_by_id", 404, TRUE, uid, <<>>, NoToken)
               /\ UNCHANGED <<tags, task_tags>>
          ELSE /\ tags' = Without(tags, {tag})
               /\ task_tags' = {p \in task_tags : p[2] # tag}
               /\ Answer("delete_tag_by_id", 200, TRUE, uid, <<>>, NoToken)


---------------------------------------------------------------------------
(* Tasks *)

MaxTasks == 2    \* task rows ever created

TODO == "To Do"
IN_PROGRESS == "In Progress"
READY == "Ready"
StatusEnum == {TODO, IN_PROGRESS, READY}

LOW == "Low"
MEDIUM == "Medium"
HIGH == "High"
PriorityEnum == {LOW, MEDIUM, HIGH}

\* dates are days; datetime.now().date() at time t (in seconds)
SecondsPerDay == 86400

Today(t) == t \div SecondsPerDay

\* None for a date, and for a list of identifiers
NoDate == -1000
NoList == <<NoId>>

Task(user_id, title, description, status, priority, due_date, category_id) ==
    [title |-> title, description |-> description, status |-> status,
     priority |-> priority, due_date |-> due_date, user_id |-> user_id,
     category_id |-> category_id]

\* Task.tags: the tags of the task's associations
Task_tags(tts, id) == {p[2] : p \in {q \in tts : q[1] = id}}

\* a Ready task is never overdue
is_overdue_NotReady(row, t) ==
    row.due_date # NoDate /\ row.due_date < Today(t) /\ row.status # READY

\* Task.is_overdue: the due date has passed, whatever the status
is_overdue(row, t) == row.due_date # NoDate /\ row.due_date < Today(t)

\* Task.to_dict: "category" is the name of the row category_id points to
Task_to_dict(ts, cs, gs, tts, id, t) ==
    [kind |-> "task", id |-> id, title |-> ts[id].title,
     description |-> ts[id].description, status |-> ts[id].status,
     priority |-> ts[id].priority, due_date |-> ts[id].due_date,
     user_id |-> ts[id].user_id, category_id |-> ts[id].category_id,
     category |-> IF ts[id].category_id \in DOMAIN cs
                  THEN cs[ts[id].category_id].name ELSE Null,
     tags |-> {gs[x].name : x \in Task_tags(tts, id)},
     is_overdue |-> is_overdue(ts[id], t)]

\* Task.query.filter_by(id=task_id, user_id=user_id).first()
get_task_by_id(ts, task_id, user_id) ==
    IF task_id \in DOMAIN ts /\ ts[task_id].user_id = user_id THEN task_id ELSE NoId

TaskBody(title, status, due_date, category_id, tag_ids) ==
    [title |-> title, description |-> Absent, status |-> status, priority |-> Absent,
     due_date |-> due_date, category_id |-> category_id, tag_ids |-> tag_ids]

MalformedTaskBody == TaskBody(Malformed, Absent, NoDate, NoId, NoList)

\* the handlers treat a category_id, due_date or tag list given as null as one
\* not given: NoId, NoDate and NoList stand for both

\* TaskCreate: title 1..128 characters; status and priority default when not
\* given and must be members of their enumerations when given
TaskCreate(b) ==
    /\ Provided(b.title) /\ Len(b.title) >= 1 /\ Len(b.title) <= 128
    /\ b.status \in StatusEnum \cup {Absent}
    /\ b.priority \in PriorityEnum \cup {Absent}

\* TaskUpdate: every member optional
TaskUpdate(b) ==
    /\ Provided(b.title) => (Len(b.title) >= 1 /\ Len(b.title) <= 128)
    /\ b.status \in StatusEnum \cup {Absent, Null}
    /\ b.priority \in PriorityEnum \cup {Absent, Null}

\* the tags of the list that get_tag_by_id finds for the user, in order
RECURSIVE FoundTags(_, _, _)
FoundTags(gs, tag_ids, user_id) ==
    IF tag_ids = <<>> THEN <<>>
    ELSE LET tag == get_tag_by_id(gs, Head(tag_ids), user_id)
             rest == FoundTags(gs, Tail(tag_ids), user_id)
         IN IF tag = NoId THEN rest ELSE <<tag>> \o rest

Range(seq) == {seq[i] : i \in DOMAIN seq}

\* two TaskTag rows with one primary key
HasDuplicates(seq) == Cardinality(Range(seq)) < Len(seq)

\* the foreign key task.category_id -> category.id
CategoryExists(cs, category_id) == category_id = NoId \/ category_id \in DOMAIN cs

\* create_task: add the task and an association for each tag found, commit;
\* a refused flush rolls everything back (ok = FALSE)
create_task(ts, cs, gs, tts, id, user_id, b) ==
    LET found == IF b.tag_ids # NoList THEN FoundTags(gs, b.tag_ids, user_id) ELSE <<>>
        row == Task(user_id, b.title,
                    IF Provided(b.description) THEN b.description ELSE Null,
                    IF Provided(b.status) THEN b.status ELSE TODO,
                    IF Provided(b.priority) THEN b.priority ELSE MEDIUM,
                    b.due_date, b.category_id)
    IN IF ~CategoryExists(cs, b.category_id) \/ HasDuplicates(found)
       THEN [ok |-> FALSE, tasks |-> ts, task_tags |-> tts]
       ELSE [ok |-> TRUE, tasks |-> (id :> row) @@ ts,
             task_tags |-> tts \cup {<<id, x>> : x \in Range(found)}]

\* the associations the task has are not cleared before the new ones are added
update_task_KeepsTags(ts, cs, gs, tts, id, b) ==
    LET found == IF b.tag_ids # NoList THEN FoundTags(gs, b.tag_ids, ts[id].user_id)
                 ELSE <<>>
    IN [ok |-> TRUE, tasks |-> ts, task_tags |-> tts \cup {<<id, x>> : x \in Range(found)}]

\* update_task: values given as None are skipped; a given tag_ids replaces the
\* associations of the task
update_task(ts, cs, gs, tts, id, b) ==
    LET old == ts[id]
        row == [old EXCEPT
                  !.title = IF Provided(b.title) THEN b.title ELSE @,
                  !.description = IF Provided(b.description) THEN b.description ELSE @,
                  !.status = IF Provided(b.status) THEN b.status ELSE @,
                  !.priority = IF Provided(b.priority) THEN b.priority ELSE @,
                  !.due_date = IF b.due_date # NoDate THEN b.due_date ELSE @,
                  !.category_id = IF b.category_id # NoId THEN b.category_id ELSE @]
        found == IF b.tag_ids # NoList THEN FoundTags(gs, b.tag_ids, old.user_id)
                 ELSE <<>>
    IN IF ~CategoryExists(cs, row.category_id) \/ HasDuplicates(found)
       THEN [ok |-> FALSE, tasks |-> ts, task_tags |-> tts]
       ELSE [ok |-> TRUE, tasks |-> [ts EXCEPT ![id] = row],
             task_tags |-> IF b.tag_ids # NoList
                           THEN {p \in tts : p[1] # id} \cup {<<id, x>> : x \in Range(found)}
                           ELSE tts]


TaskSortKey(ts, id, sort_by) ==
    IF sort_by = "title" THEN Collate(ts[id].title) ELSE created_at(id)

\* list_tasks: newest first
list_tasks(ts, user_id, page, per_page) ==
    LET mine == OwnedBy(ts, user_id)
    IN {[items |-> Page(o, page, per_page), total |-> Cardinality(mine)] :
           o \in Ordered(mine, [x \in mine |-> created_at(x)], "desc")}

\* Task.title.ilike("%pattern%") on the titles and patterns that occur
ILike(title, pattern) ==
    <<pattern, title>> \in {<<"ship", "Ship">>, <<"Ship", "Ship">>, <<"p", "Ship">>,
                            <<"plan", "Plan">>, <<"Plan", "Plan">>, <<"p", "Plan">>}

SearchParams(title, status, category_id, tag_ids, overdue, from, to, by, order, page, per_page) ==
    [title |-> title, status |-> status, priority |-> Absent,
     category_id |-> category_id, tag_ids |-> tag_ids, is_overdue |-> overdue,
     due_date_from |-> from, due_date_to |-> to,
     sort_by |-> by, sort_order |-> order, page |-> page,
     per_page |-> per_page]

\* TaskSearchParams: a single tag_ids value arrives as a string, not a list;
\* sort_by and sort_order are checked against their lists
TaskSearchParams(q) ==
    /\ q.status \in StatusEnum \cup {Absent}
    /\ q.priority \in PriorityEnum \cup {Absent}
    /\ q.tag_ids # NoList => Len(q.tag_ids) # 1
    /\ q.sort_by \in {"created_at", "updated_at", "due_date", "priority", "status",
                      "title"}
    /\ q.sort_order \in {"asc", "desc"}

\* validate_due_date_range reads values.get, which the validation info passed
\* by the validator framework does not have
SearchValidatorRaises(q) == q.due_date_to # NoDate

\* the rows of a sequence, each once, in order of first occurrence
RECURSIVE Unique(_)
Unique(seq) ==
    IF seq = <<>> THEN <<>>
    ELSE <<Head(seq)>> \o Unique(SelectSeq(Tail(seq), LAMBDA x : x # Head(seq)))

\* search_tasks: the filters, the join with the associations when tag_ids is
\* given (one row per association of a matching task), the order, count() of
\* the rows, and the page of rows as entities
search_tasks(ts, tts, user_id, q, t) ==
    LET match(x) ==
            /\ Provided(q.title) => ILike(ts[x].title, q.title)
            /\ Provided(q.status) => ts[x].status = q.status
            /\ Provided(q.priority) => ts[x].priority = q.priority
            /\ q.category_id # NoId => ts[x].category_id = q.category_id
            /\ Provided(q.is_overdue) => (is_overdue(ts[x], t) <=> q.is_overdue = "true")
            /\ q.due_date_from # NoDate =>
                   (ts[x].due_date # NoDate /\ ts[x].due_date >= q.due_date_from)
            /\ q.due_date_to # NoDate =>
                   (ts[x].due_date # NoDate /\ ts[x].due_date <= q.due_date_to)
        base == {x \in OwnedBy(ts, user_id) : match(x)}
        joined == q.tag_ids # NoList /\ q.tag_ids # <<>>
        rows == IF joined
                THEN {p \in tts : p[1] \in base
                                  /\ Task_tags(tts, p[1]) \cap Range(q.tag_ids) # {}}
                ELSE {<<x, NoId>> : x \in base}
        orders == IF q.sort_by \in {"created_at", "title"}
                  THEN Ordered(rows, [p \in rows |-> TaskSortKey(ts, p[1], q.sort_by)],
                               q.sort_order)
                  ELSE Perms(rows)
        entities(o) == Unique([i \in DOMAIN o |-> o[i][1]])
    IN {[items |-> entities(Page(o, q.page, q.per_page)), total |-> Cardinality(rows)] :
           o \in orders}

\* get_task_stats
get_task_stats(ts, user_id, t) ==
    LET mine == OwnedBy(ts, user_id)
    IN [kind |-> "task_stats",
        total_tasks |-> Cardinality(mine),
        completed_tasks |-> Cardinality({x \in mine : ts[x].status = READY}),
        overdue_tasks |-> Cardinality({x \in mine : /\ ts[x].due_date # NoDate
                                                    /\ ts[x].due_date < Today(t)
                                                    /\ ts[x].status # READY}),
        due_today |-> Cardinality({x \in mine : ts[x].due_date = Today(t)})]

\* get_category_stats: the user's categories, each with the counts of the
\* user's tasks in it
get_category_stats(cs, ts, user_id, t) ==
    LET in(c) == {x \in OwnedBy(ts, user_id) : ts[x].category_id = c}
        stats(c) ==
            [kind |-> "category_stats", id |-> c, name |-> cs[c].name,
             description |-> cs[c].description, user_id |-> cs[c].user_id,
             task_count |-> Cardinality(in(c)),
             completed_count |-> Cardinality({x \in in(c) : ts[x].status = READY}),
             overdue_count |-> Cardinality({x \in in(c) : /\ ts[x].due_date # NoDate
                                                          /\ ts[x].due_date < Today(t)
                                                          /\ ts[x].status # READY})]
    IN {[i \in DOMAIN o |-> stats(o[i])] : o \in Perms(OwnedBy(cs, user_id))}

\* GET /categories/stats
GetCategoriesStats(h) ==
    /\ UNCHANGED <<store, nextId, now, issued, pending>>
    /\ LET uid == login_required(users, h, now)
       IN IF uid = NoId
          THEN Answer("get_categories_stats", 401, FALSE, NoId, <<>>, NoToken)
          ELSE \E stats \in get_category_stats(categories, tasks, uid, now) :
                 Answer("get_categories_stats", 200, TRUE, uid, stats, NoToken)


TaskDicts(items) ==
    [i \in DOMAIN items |-> Task_to_dict(tasks, categories, tags, task_tags, items[i], now)]

\* POST /tasks
CreateTask(h, b) ==
    /\ UNCHANGED <<users, categories, tags, now, issued, pending>>
    /\ LET uid == login_required(users, h, now)
           id == nextId.task + 1
           r == create_task(tasks, categories, tags, task_tags, id, uid, b)
       IN IF uid = NoId
          THEN /\ Answer("create_new_task", 401, FALSE, NoId, <<>>, NoToken)
               /\ UNCHANGED <<tasks, task_tags, nextId>>
          ELSE IF b = MalformedTaskBody
          \* request.get_json() raises inside login_required's try
          THEN /\ Answer("create_new_task", 401, TRUE, uid, <<>>, NoToken)
               /\ UNCHANGED <<tasks, task_tags, nextId>>
          ELSE IF ~TaskCreate(b)
          THEN /\ Answer("create_new_task", 400, TRUE, uid, <<>>, NoToken)
               /\ UNCHANGED <<tasks, task_tags, nextId>>
          ELSE IF ~r.ok
          THEN /\ Answer("create_new_task", 500, TRUE, uid, <<>>, NoToken)
               /\ UNCHANGED <<tasks, task_tags, nextId>>
          ELSE /\ nextId.task < MaxTasks
               /\ tasks' = r.tasks
               /\ task_tags' = r.task_tags
               /\ nextId' = [nextId EXCEPT !.task = id]
               /\ Answer("create_new_task", 201, TRUE, uid,
                         <<Task_to_dict(r.tasks, categories, tags, r.task_tags, id, now)>>,
                         NoToken)

\* GET /tasks
GetTasks(h, page, per_page) ==
    /\ UNCHANGED <<store, nextId, now, issued, pending>>
    /\ LET uid == login_required(users, h, now)
       IN IF uid = NoId
          THEN Answer("get_tasks", 401, FALSE, NoId, <<>>, NoToken)
          ELSE \E r \in list_tasks(tasks, uid, page, per_page) :
                 resp' = ListResponse("get_tasks", 200, TRUE, uid, TaskDicts(r.items),
                                      NoToken, r.total, Pages(r.total, per_page))

\* GET /tasks/search
SearchUserTasks(h, q) ==
    /\ UNCHANGED <<store, nextId, now, issued, pending>>
    /\ LET uid == login_required(users, h, now)
       IN IF uid = NoId
          THEN Answer("search_user_tasks", 401, FALSE, NoId, <<>>, NoToken)
          ELSE IF ~TaskSearchParams(q)
          THEN Answer("search_user_tasks", 400, TRUE, uid, <<>>, NoToken)
          ELSE IF SearchValidatorRaises(q)
          THEN Answer("search_user_tasks", 500, TRUE, uid, <<>>, NoToken)
          ELSE \E r \in search_tasks(tasks, task_tags, uid, q, now) :
                 resp' = ListResponse("search_user_tasks", 200, TRUE, uid,
                                      TaskDicts(r.items), NoToken, r.total,
                                      Pages(r.total, q.per_page))

\* GET /tasks/stats
GetTasksStats(h) ==
    /\ UNCHANGED <<store, nextId, now, issued, pending>>
    /\ LET uid == login_required(users, h, now)
       IN IF uid = NoId
          THEN Answer("get_tasks_stats", 401, FALSE, NoId, <<>>, NoToken)
          ELSE Answer("get_tasks_stats", 200, TRUE, uid,
                      <<get_task_stats(tasks, uid, now)>>, NoToken)

\* GET /tasks/<task_id>
GetTask(h, task_id) ==
    /\ UNCHANGED <<store, nextId, now, issued, pending>>
    /\ LET uid == login_required(users, h, now)
           task == get_task_by_id(tasks, task_id, uid)
       IN IF uid = NoId
          THEN Answer("get_task", 401, FALSE, NoId, <<>>, NoToken)
          ELSE IF task = NoId
          THEN Answer("get_task", 404, TRUE, uid, <<>>, NoToken)
          ELSE Answer("get_task", 200, TRUE, uid, TaskDicts(<<task>>), NoToken)

\* PUT /tasks/<task_id>
UpdateTaskById(h, task_id, b) ==
    /\ UNCHANGED <<users, categories, tags, nextId, now, issued, pending>>
    /\ LET uid == login_required(users, h, now)
           task == get_task_by_id(tasks, task_id, uid)
           r == update_task(tasks, categories, tags, task_tags, task, b)
       IN IF uid = NoId
          THEN /\ Answer("update_task_by_id", 401, FALSE, NoId, <<>>, NoToken)
               /\ UNCHANGED <<tasks, task_tags>>
          ELSE IF task = NoId
          THEN /\ Answer("update_task_by_id", 404, TRUE, uid, <<>>, NoToken)
               /\ UNCHANGED <<tasks, task_tags>>
          ELSE IF b = MalformedTaskBody
          THEN /\ Answer("update_task_by_id", 401, TRUE, uid, <<>>, NoToken)
               /\ UNCHANGED <<tasks, task_tags>>
          ELSE IF ~TaskUpdate(b)
          THEN /\ Answer("update_task_by_id", 400, TRUE, uid, <<>>, NoToken)
               /\ UNCHANGED <<tasks, task_tags>>
          ELSE IF ~r.ok
          THEN /\ Answer("update_task_by_id", 500, TRUE, uid, <<>>, NoToken)
               /\ UNCHANGED <<tasks, task_tags>>
          ELSE /\ tasks' = r.tasks
               /\ task_tags' = r.task_tags
               /\ Answer("update_task_by_id", 200, TRUE, uid,
                         <<Task_to_dict(r.tasks, categories, tags, r.task_tags, task, now)>>,
                         NoToken)

\* DELETE /tasks/<task_id>: Task.task_tags cascades the delete
DeleteTaskById(h, task_id) ==
    /\ UNCHANGED <<users, categories, tags, nextId, now, issued, pending>>
    /\ LET uid == login_required(users, h, now)
           task == get_task_by_id(tasks, task_id, uid)
       IN IF uid = NoId
          THEN /\ Answer("delete_task_by_id", 401, FALSE, NoId, <<>>, NoToken)
               /\ UNCHANGED <<tasks, task_tags>>
          ELSE IF task = NoId
          THEN /\ Answer("delete_task_by_id", 404, TRUE, uid, <<>>, NoToken)
               /\ UNCHANGED <<tasks, task_tags>>
          ELSE /\ tasks' = Without(tasks, {task})
               /\ task_tags' = {p \in task_tags : p[1] # task}
               /\ Answer("delete_task_by_id", 200, TRUE, uid, <<>>, NoToken)

\* POST /tasks/<task_id>/tags/<tag_id> when the tag is looked up by id alone
AddTag_AnyTag(h, task_id, tag_id) ==
    /\ UNCHANGED <<users, categories, tags, tasks, nextId, now, issued, pending>>
    /\ LET uid == login_required(users, h, now)
           task == get_task_by_id(tasks, task_id, uid)
       IN IF uid = NoId
          THEN /\ Answer("add_tag", 401, FALSE, NoId, <<>>, NoToken)
               /\ UNCHANGED task_tags
          ELSE IF task = NoId
          THEN /\ Answer("add_tag", 404, TRUE, uid, <<>>, NoToken)
               /\ UNCHANGED task_tags
          ELSE IF tag_id \notin DOMAIN tags
          THEN /\ Answer("add_tag", 400, TRUE, uid, <<>>, NoToken)
               /\ UNCHANGED task_tags
          ELSE IF <<task, tag_id>> \in task_tags
          THEN /\ Answer("add_tag", 401, TRUE, uid, <<>>, NoToken)
               /\ UNCHANGED task_tags
          ELSE /\ task_tags' = task_tags \cup {<<task, tag_id>>}
               /\ Answer("add_tag", 200, TRUE, uid, <<>>, NoToken)

\* POST /tasks/<task_id>/tags/<tag_id>: add_tag_to_task has no try/except, so
\* the refused commit of a second association with the same key leaves the
\* route function as an exception, which login_required answers with 401
AddTag(h, task_id, tag_id) ==
    /\ UNCHANGED <<users, categories, tags, tasks, nextId, now, issued, pending>>
    /\ LET uid == login_required(users, h, now)
           task == get_task_by_id(tasks, task_id, uid)
           tag == IF task = NoId THEN NoId
                  ELSE get_tag_by_id(tags, tag_id, tasks[task].user_id)
       IN IF uid = NoId
          THEN /\ Answer("add_tag", 401, FALSE, NoId, <<>>, NoToken)
               /\ UNCHANGED task_tags
          ELSE IF task = NoId
          THEN /\ Answer("add_tag", 404, TRUE, uid, <<>>, NoToken)
               /\ UNCHANGED task_tags
          ELSE IF tag = NoId
          THEN /\ Answer("add_tag", 400, TRUE, uid, <<>>, NoToken)
               /\ UNCHANGED task_tags
          ELSE IF <<task, tag>> \in task_tags
          THEN /\ Answer("add_tag", 401, TRUE, uid, <<>>, NoToken)
               /\ UNCHANGED task_tags
          ELSE /\ task_tags' = task_tags \cup {<<task, tag>>}
               /\ Answer("add_tag", 200, TRUE, uid, <<>>, NoToken)

\* DELETE /tasks/<task_id>/tags/<tag_id>
RemoveTag(h, task_id, tag_id) ==
    /\ UNCHANGED <<users, categories, tags, tasks, nextId, now, issued, pending>>
    /\ LET uid == login_required(users, h, now)
           task == get_task_by_id(tasks, task_id, uid)
           tag == IF task = NoId THEN NoId
                  ELSE get_tag_by_id(tags, tag_id, tasks[task].user_id)
       IN IF uid = NoId
          THEN /\ Answer("remove_tag", 401, FALSE, NoId, <<>>, NoToken)
               /\ UNCHANGED task_tags
          ELSE IF task = NoId
          THEN /\ Answer("remove_tag", 404, TRUE, uid, <<>>, NoToken)
               /\ UNCHANGED task_tags
          ELSE IF tag = NoId
          THEN /\ Answer("remove_tag", 400, TRUE, uid, <<>>, NoToken)
               /\ UNCHANGED task_tags
          ELSE /\ task_tags' = task_tags \ {<<task, tag>>}
               /\ Answer("remove_tag", 200, TRUE, uid, <<>>, NoToken)


---------------------------------------------------------------------------
(* The store of two users who hold access tokens *)

Bob == User("bob", "bob@x.com", "password123")

BobId == 3

\* root seeded, alice and bob registered and logged in
Init ==
    /\ users = (RootId :> Root) @@ (AliceId :> Alice) @@ (BobId :> Bob)
    /\ categories = EmptyTable
    /\ tags = EmptyTable
    /\ tasks = EmptyTable
    /\ task_tags = {}
    /\ nextId = [user |-> 3, category |-> 0, tag |-> 0, task |-> 0]
    /\ now = 0
    /\ issued = {[token |-> create_access_token(u, NoTime, 0),
                  ttl |-> JWT_ACCESS_TOKEN_EXPIRES * SecondsPerHour] :
                    u \in {AliceId, BobId}}
    /\ pending = [w \in Workers |-> Idle]
    /\ resp = NoResponse

\* the requests of the two clients: with the token of alice or with that of bob
Clients == {[form |-> "bearer", token |-> tk] : tk \in KnownTokens}

\* rows per table that the two clients create between them
MaxRows == 1

CategoryIds == 1..MaxRows
TagIds == 1..MaxRows
TaskIds == 1..MaxRows

CategoryBodies ==
    {CategoryBody("Work", Absent), CategoryBody(Absent, Absent), MalformedCategoryBody}

CategoryUpdateBodies == {CategoryBody("Home", Absent), MalformedCategoryBody}

TagBodies == {TagBody("urgent"), TagBody(""), TagBody(Malformed)}

TagUpdateBodies == {TagBody("later"), TagBody(Malformed)}

\* sort_by, sort_order, page, per_page
ListInputs == {<<"name", "asc", 1, 20>>, <<"color", "desc", 2, 1>>}

\* page, per_page
TaskPageInputs == {<<1, 20>>, <<2, 1>>}

TaskBodies ==
    {TaskBody("Ship", Absent, NoDate, NoId, NoList),
     TaskBody(Absent, Absent, NoDate, NoId, NoList),
     MalformedTaskBody}
    \cup {TaskBody("Ship", Absent, NoDate, c, <<g>>) : c \in CategoryIds, g \in TagIds}
    \cup {TaskBody("Ship", Absent, NoDate, NoId, <<g, g>>) : g \in TagIds}

TaskUpdateBodies ==
    {TaskBody(Absent, READY, NoDate, NoId, NoList),
     TaskBody(Absent, Absent, NoDate, NoId, <<>>),
     MalformedTaskBody}
    \cup {TaskBody(Absent, Absent, NoDate, c, NoList) : c \in CategoryIds}
    \cup {TaskBody(Absent, Absent, NoDate, NoId, <<g>>) : g \in TagIds}

SearchInputs ==
    {SearchParams(Absent, Absent, NoId, NoList, Absent, NoDate, NoDate,
                  "created_at", "desc", 1, 20),
     SearchParams("ship", READY, NoId, NoList, "false", NoDate, NoDate,
                  "color", "asc", 1, 20)}
    \cup {SearchParams(Absent, Absent, c, <<g, g>>, Absent, NoDate, NoDate,
                       "title", "asc", 1, 1) : c \in CategoryIds, g \in TagIds}

Next ==
    \/ \E h \in Clients, b \in CategoryBodies :
         CreateCategory(h, b) /\ nextId'.category <= MaxRows
    \/ \E h \in Clients, l \in ListInputs : GetCategories(h, l[1], l[2], l[3], l[4])
    \/ \E h \in Clients : GetCategoriesStats(h)
    \/ \E h \in Clients, c \in CategoryIds : GetCategory(h, c)
    \/ \E h \in Clients, c \in CategoryIds, b \in CategoryUpdateBodies :
         UpdateCategoryById(h, c, b)
    \/ \E h \in Clients, c \in CategoryIds : DeleteCategoryById(h, c)
    \/ \E h \in Clients, b \in TagBodies : CreateTag(h, b) /\ nextId'.tag <= MaxRows
    \/ \E h \in Clients, l \in ListInputs : GetTags(h, l[1], l[2], l[3], l[4])
    \/ \E h \in Clients : GetTagsStats(h)
    \/ \E h \in Clients, g \in TagIds : GetTag(h, g)
    \/ \E h \in Clients, g \in TagIds, b \in TagUpdateBodies : UpdateTagById(h, g, b)
    \/ \E h \in Clients, g \in TagIds : DeleteTagById(h, g)
    \/ \E h \in Clients, b \in TaskBodies : CreateTask(h, b) /\ nextId'.task <= MaxRows
    \/ \E h \in Clients, l \in TaskPageInputs : GetTasks(h, l[1], l[2])
    \/ \E h \in Clients, q \in SearchInputs : SearchUserTasks(h, q)
    \/ \E h \in Clients : GetTasksStats(h)
    \/ \E h \in Clients, x \in TaskIds : GetTask(h, x)
    \/ \E h \in Clients, x \in TaskIds, b \in TaskUpdateBodies : UpdateTaskById(h, x, b)
    \/ \E h \in Clients, x \in TaskIds : DeleteTaskById(h, x)
    \/ \E h \in Clients, x \in TaskIds, g \in TagIds : AddTag(h, x, g)
    \/ \E h \in Clients, x \in TaskIds, g \in TagIds : RemoveTag(h, x, g)

Spec == Init /\ [][Next]_vars


---------------------------------------------------------------------------
(* Claims about the store *)

ReadOps ==
    {"get_category", "get_categories", "get_categories_stats",
     "get_tag", "get_tags", "get_tags_stats",
     "get_task", "get_tasks", "search_user_tasks"}

\* the owner, in the store, of the entity a dictionary of an answer describes
OwnerOf(d) ==
    IF d.kind \in {"category", "category_stats"} THEN categories[d.id].user_id
    ELSE IF d.kind \in {"tag", "tag_stats"} THEN tags[d.id].user_id
    ELSE tasks[d.id].user_id

\* C1: whatever requests came before, every category, tag or task that a
\* get-by-id, list, search or stats request returns is owned by the user whose
\* token the request carried, and the task counters of /tasks/stats count that
\* user's tasks only.
C1_OwnEntitiesOnly ==
    /\ resp.op \in ReadOps =>
          \A i \in DOMAIN resp.data :
              resp.data[i].user_id = resp.caller /\ OwnerOf(resp.data[i]) = resp.caller
    /\ (resp.op = "get_tasks_stats" /\ resp.status = 200) =>
          resp.data[1].total_tasks = Cardinality(OwnedBy(tasks, resp.caller))

\* bob lists his categories and gets none while alice owns one
C1_Witness ==
    /\ resp.op = "get_categories" /\ resp.status = 200 /\ resp.caller = BobId
    /\ resp.data = <<>> /\ resp.total = 0
    /\ \E c \in DOMAIN categories : categories[c].user_id = AliceId

\* C3: a request whose token resolved to an existing user (the gate let it
\* through to the route function) is never answered 401, whatever goes wrong
\* in the route function.
C3_ValidTokenNever401 == resp.caller # NoId => resp.status # 401

\* C5: the category named in a task that a user retrieves (get, list or
\* search) is a category of that user, never one owned by another user.
C5_OwnCategoryNameOnly ==
    resp.op \in {"get_task", "get_tasks", "search_user_tasks"} =>
        \A i \in DOMAIN resp.data :
            resp.data[i].category # Null =>
                categories[resp.data[i].category_id].user_id = resp.caller


---------------------------------------------------------------------------
(* The tags of two users *)

TagNames == {"urgent", "later"}

AllTagIds == 1..MaxTags

NextTags ==
    \/ \E h \in Clients, n \in TagNames : CreateTag(h, TagBody(n))
    \/ \E h \in Clients, g \in AllTagIds : GetTag(h, g)
    \/ \E h \in Clients, g \in AllTagIds, n \in TagNames : UpdateTagById(h, g, TagBody(n))
    \/ \E h \in Clients, g \in AllTagIds : DeleteTagById(h, g)

SpecTags == Init /\ [][NextTags]_vars

\* a tag of the user other than tag `except` has the name
NameTaken(uid, name, except) ==
    \E x \in OwnedBy(tags, uid) : x # except /\ tags[x].name = name

\* C11: creating a tag with, or renaming a tag to, a name that another tag of
\* the caller has is answered 409 and changes no tag; when no other tag of the
\* caller has the name the request succeeds, whatever names the tags of other
\* users have.
C11_DuplicateTagName ==
    [][\A h \in Clients, n \in TagNames :
         LET uid == h.token.sub
         IN /\ CreateTag(h, TagBody(n)) =>
                  IF NameTaken(uid, n, NoId)
                  THEN resp'.status = 409 /\ tags' = tags
                  ELSE resp'.status = 201 /\ tags'[nextId'.tag] = Tag(uid, n)
            /\ \A g \in OwnedBy(tags, uid) :
                  UpdateTagById(h, g, TagBody(n)) =>
                      IF NameTaken(uid, n, g)
                      THEN resp'.status = 409 /\ tags' = tags
                      ELSE resp'.status = 200 /\ tags'[g].name = n]_vars

\* a rename to the name of the caller's other tag was refused
C11_Witness ==
    /\ resp.op = "update_tag_by_id" /\ resp.status = 409
    /\ \E x, y \in OwnedBy(tags, resp.caller) : x # y /\ tags[x].name # tags[y].name

\* two users hold a tag of the same name, the second of them just created
C11_OtherUserSameName ==
    /\ resp.op = "create_new_tag" /\ resp.status = 201
    /\ \E x, y \in DOMAIN tags :
          tags[x].name = tags[y].name /\ tags[x].user_id # tags[y].user_id


---------------------------------------------------------------------------
(* Requests that name an entity the caller does not have *)

\* a request by id for a category, tag or task
CategoryRequest(h, c) ==
    \/ GetCategory(h, c)
    \/ \E b \in CategoryUpdateBodies : UpdateCategoryById(h, c, b)
    \/ DeleteCategoryById(h, c)

TagRequest(h, g) ==
    \/ GetTag(h, g)
    \/ \E b \in TagUpdateBodies : UpdateTagById(h, g, b)
    \/ DeleteTagById(h, g)

TaskRequest(h, x) ==
    \/ GetTask(h, x)
    \/ \E b \in TaskUpdateBodies : UpdateTaskById(h, x, b)
    \/ DeleteTaskById(h, x)

NotFound == resp'.status = 404 /\ UNCHANGED store

\* C12 for the routes /{resource}/{id}: the id of a category, tag or task that
\* does not exist or is owned by another user is answered 404, store unchanged
NotFoundById ==
    \A h \in Clients :
        /\ \A c \in CategoryIds \ OwnedBy(categories, h.token.sub) :
              CategoryRequest(h, c) => NotFound
        /\ \A g \in TagIds \ OwnedBy(tags, h.token.sub) : TagRequest(h, g) => NotFound
        /\ \A x \in TaskIds \ OwnedBy(tasks, h.token.sub) : TaskRequest(h, x) => NotFound

\* C12 for the routes /tasks/{id}/tags/{tag_id}: the same for the task and for
\* the tag that the request names
NotFoundTagOfTask ==
    \A h \in Clients, x \in TaskIds, g \in TagIds :
        (/\ x \notin OwnedBy(tasks, h.token.sub) \/ g \notin OwnedBy(tags, h.token.sub)
         /\ AddTag(h, x, g) \/ RemoveTag(h, x, g))
        => NotFound

\* C12: a GET, PUT or DELETE by id, or a tag add/remove, that names a category,
\* tag or task which does not exist or is owned by another user is answered
\* 404 and leaves the store unchanged.
C12_NotFoundIs404 == [][NotFoundById /\ NotFoundTagOfTask]_vars


---------------------------------------------------------------------------
(* Writes that the database refuses *)

\* the flush or commit of POST /tasks or PUT /tasks/<id> is refused: the
\* category reference has no row, or two associations have one key
TaskWriteRefused(h) ==
    \/ \E b \in TaskBodies :
          /\ CreateTask(h, b)
          /\ b # MalformedTaskBody /\ TaskCreate(b)
          /\ ~create_task(tasks, categories, tags, task_tags, nextId.task + 1,
                          h.token.sub, b).ok
    \/ \E x \in OwnedBy(tasks, h.token.sub), b \in TaskUpdateBodies :
          /\ UpdateTaskById(h, x, b)
          /\ b # MalformedTaskBody /\ TaskUpdate(b)
          /\ ~update_task(tasks, categories, tags, task_tags, x, b).ok

\* the commit of POST /tasks/<id>/tags/<tag_id> is refused: the task already
\* has the association
AssociationWriteRefused(h) ==
    \E x \in OwnedBy(tasks, h.token.sub), g \in OwnedBy(tags, h.token.sub) :
        AddTag(h, x, g) /\ <<x, g>> \in task_tags

\* C13: when the database refuses the write of a mutating request, the
\* request is answered 500 and the store is exactly as it was before it.
C13_FailureIs500AndRolledBack ==
    [][\A h \in Clients :
         (TaskWriteRefused(h) \/ AssociationWriteRefused(h))
         => resp'.status = 500 /\ UNCHANGED store]_vars


---------------------------------------------------------------------------
(* Updates of one user's category, tag, task and account *)

\* the request bodies of PUT /tasks/<id> with every member of TaskUpdate
TaskUpdateBody(title, description, status, priority, due_date, category_id, tag_ids) ==
    [title |-> title, description |-> description, status |-> status,
     priority |-> priority, due_date |-> due_date, category_id |-> category_id,
     tag_ids |-> tag_ids]

\* the client that holds the token of user u
ClientOf(u) == CHOOSE h \in Clients : h.token.sub = u

CategoryFrameBodies ==
    {CategoryBody(n, d) : n \in {Absent, Null, "Home"}, d \in {Absent, Null, "notes"}}

TagFrameBodies == {TagBody(n) : n \in {Absent, Null, "later"}}

TaskFrameBodies ==
    {TaskUpdateBody(t, Absent, Absent, Absent, NoDate, NoId, NoList) : t \in {Null, "Plan"}}
    \cup {TaskUpdateBody(Absent, d, Absent, Absent, NoDate, NoId, NoList) :
            d \in {Null, "notes"}}
    \cup {TaskUpdateBody(Absent, Absent, st, Absent, NoDate, NoId, NoList) :
            st \in {Null, READY}}
    \cup {TaskUpdateBody(Absent, Absent, Absent, Absent, NoDate, 1, NoList),
          TaskUpdateBody(Absent, Absent, Absent, Absent, NoDate, NoId, <<1>>),
          TaskUpdateBody(Absent, Absent, Absent, Absent, NoDate, NoId, <<>>),
          TaskUpdateBody("Plan", Null, Null, Null, NoDate, NoId, NoList),
          TaskUpdateBody(Absent, Absent, Absent, Absent, NoDate, NoId, NoList)}

UserFrameBodies ==
    {UpdateBody("bob@x.com", Absent, Absent), UpdateBody(Null, Absent, "newpassword"),
     UpdateBody(Absent, Null, Absent), UpdateBody(Null, "bob@x.com", Null)}

NextUpdate ==
    \/ CreateCategory(ClientOf(AliceId), CategoryBody("Work", Absent))
         /\ nextId'.category <= MaxRows
    \/ CreateTag(ClientOf(AliceId), TagBody("urgent")) /\ nextId'.tag <= MaxRows
    \/ CreateTask(ClientOf(AliceId), TaskBody("Ship", Absent, NoDate, NoId, NoList))
         /\ nextId'.task <= MaxRows
    \/ \E c \in CategoryIds, b \in CategoryFrameBodies :
         UpdateCategoryById(ClientOf(AliceId), c, b)
    \/ \E g \in TagIds, b \in TagFrameBodies : UpdateTagById(ClientOf(AliceId), g, b)
    \/ \E x \in TaskIds, b \in TaskFrameBodies : UpdateTaskById(ClientOf(AliceId), x, b)
    \/ \E b \in UserFrameBodies : UpdateMe(ClientOf(AliceId), b)

SpecUpdate == Init /\ [][NextUpdate]_vars

\* the value of a string member after an update with `given`
Updated(old, given) == IF Provided(given) THEN given ELSE old

\* every row of the table but row x is as it was, and no row came or went
OthersKept(old, new, x) ==
    DOMAIN new = DOMAIN old /\ \A y \in DOMAIN old \ {x} : new[y] = old[y]

CategoryFrame(c, b) ==
    /\ categories'[c] = [name |-> Updated(categories[c].name, b.name),
                         description |-> Updated(categories[c].description, b.description),
                         user_id |-> categories[c].user_id]
    /\ OthersKept(categories, categories', c)
    /\ resp'.data[1].id = c

TagFrame(g, b) ==
    /\ tags'[g] = [name |-> Updated(tags[g].name, b.name), user_id |-> tags[g].user_id]
    /\ OthersKept(tags, tags', g)
    /\ resp'.data[1].id = g

TaskFrame(x, b) ==
    /\ tasks'[x] = [title |-> Updated(tasks[x].title, b.title),
                    description |-> Updated(tasks[x].description, b.description),
                    status |-> Updated(tasks[x].status, b.status),
                    priority |-> Updated(tasks[x].priority, b.priority),
                    due_date |-> IF b.due_date # NoDate THEN b.due_date
                                 ELSE tasks[x].due_date,
                    category_id |-> IF b.category_id # NoId THEN b.category_id
                                    ELSE tasks[x].category_id,
                    user_id |-> tasks[x].user_id]
    /\ OthersKept(tasks, tasks', x)
    /\ Task_tags(task_tags', x) =
          IF b.tag_ids # NoList
          THEN {g \in Range(b.tag_ids) : g \in OwnedBy(tags, tasks[x].user_id)}
          ELSE Task_tags(task_tags, x)
    /\ {p \in task_tags' : p[1] # x} = {p \in task_tags : p[1] # x}
    /\ resp'.data[1].id = x

UserFrame(u, b) ==
    /\ users'[u] = [username |-> Updated(users[u].username, b.username),
                    email |-> Updated(users[u].email, b.email),
                    password_hash |-> IF Provided(b.password)
                                      THEN hash_password(b.password)
                                      ELSE users[u].password_hash,
                    role |-> users[u].role,
                    last_login |-> users[u].last_login]
    /\ OthersKept(users, users', u)
    /\ resp'.data[1].id = u

---------------------------------------------------------------------------
(* Deletions and what they take with them *)

\* root, alice and bob hold tokens; the store is empty
InitCascade ==
    /\ users = (RootId :> Root) @@ (AliceId :> Alice) @@ (BobId :> Bob)
    /\ categories = EmptyTable
    /\ tags = EmptyTable
    /\ tasks = EmptyTable
    /\ task_tags = {}
    /\ nextId = [user |-> 3, category |-> 0, tag |-> 0, task |-> 0]
    /\ now = 0
    /\ issued = {[token |-> create_access_token(u, NoTime, 0),
                  ttl |-> JWT_ACCESS_TOKEN_EXPIRES * SecondsPerHour] :
                    u \in {RootId, AliceId, BobId}}
    /\ pending = [w \in Workers |-> Idle]
    /\ resp = NoResponse

\* alice makes the first row of a table, bob the later ones
Creator(h, made) == h.token.sub = (IF made = 0 THEN AliceId ELSE BobId)

\* every task names category 1 and both tag ids
CascadeTaskBody == TaskBody("Ship", Absent, NoDate, 1, <<1, 2>>)

NextCascade ==
    \/ \E h \in Clients :
         Creator(h, nextId.category) /\ CreateCategory(h, CategoryBody("Work", Absent))
    \/ \E h \in Clients :
         /\ Creator(h, nextId.tag)
         /\ CreateTag(h, TagBody(IF nextId.tag = 0 THEN "urgent" ELSE "later"))
    \/ \E h \in Clients : Creator(h, nextId.task) /\ CreateTask(h, CascadeTaskBody)
    \/ \E h \in Clients, x \in 1..MaxTasks : GetTask(h, x)
    \/ \E h \in Clients, c \in 1..MaxCategories : DeleteCategoryById(h, c)
    \/ \E h \in Clients, g \in 1..MaxTags : DeleteTagById(h, g)
    \/ \E h \in Clients, x \in 1..MaxTasks : DeleteTaskById(h, x)
    \/ \E h \in Clients : h.token.sub # RootId /\ DeleteMe(h)
    \/ \E h \in Clients, u \in {AliceId, BobId} : DeleteUserById(h, u)

SpecCascade == InitCascade /\ [][NextCascade]_vars

\* user u is gone with every category, tag, task and association of u, and
\* every other user and every category, tag and task of the others is there
UserCascade(u) ==
    /\ users' = Without(users, {u})
    /\ DOMAIN categories' = DOMAIN categories \ OwnedBy(categories, u)
    /\ DOMAIN tags' = DOMAIN tags \ OwnedBy(tags, u)
    /\ DOMAIN tasks' = DOMAIN tasks \ OwnedBy(tasks, u)
    /\ \A c \in DOMAIN categories' : categories'[c] = categories[c]
    /\ \A g \in DOMAIN tags' : tags'[g] = tags[g]
    /\ \A x \in DOMAIN tasks' : tasks'[x].user_id = tasks[x].user_id
    /\ task_tags' = {p \in task_tags : /\ p[1] \notin OwnedBy(tasks, u)
                                       /\ p[2] \notin OwnedBy(tags, u)}

\* C15: deleting a user (DELETE /me, or DELETE /users/<id> by an admin)
\* removes the user and every category, tag, task and association the user
\* owns, and no user, category, tag or task of anyone else.
C15_UserCascade ==
    [][/\ (resp'.op = "delete_current_user" /\ resp'.status = 200) =>
             \A h \in Clients : DeleteMe(h) => UserCascade(h.token.sub)
       /\ (resp'.op = "delete_user_by_id" /\ resp'.status = 200) =>
             \A h \in Clients, u \in {AliceId, BobId} :
                 DeleteUserById(h, u) => UserCascade(u)]_vars

\* a user was deleted while another user has a category, a tag and a task
\* that carries the tag
C15_Witness ==
    /\ resp.op \in {"delete_current_user", "delete_user_by_id"} /\ resp.status = 200
    /\ Cardinality(DOMAIN users) = 2
    /\ nextId.category = 2 /\ nextId.tag = 2 /\ nextId.task = 2
    /\ \E c \in DOMAIN categories, g \in DOMAIN tags, x \in DOMAIN tasks :
          <<x, g>> \in task_tags


C17_AssociationCascade ==
    [][/\ (resp'.op = "delete_tag_by_id" /\ resp'.status = 200) =>
             \A h \in Clients, g \in 1..MaxTags :
                 DeleteTagById(h, g) =>
                     /\ g \notin DOMAIN tags'
                     /\ task_tags' = {p \in task_tags : p[2] # g}
                     /\ tasks' = tasks
       /\ (resp'.op = "delete_task_by_id" /\ resp'.status = 200) =>
             \A h \in Clients, x \in 1..MaxTasks :
                 DeleteTaskById(h, x) =>
                     /\ x \notin DOMAIN tasks'
                     /\ task_tags' = {p \in task_tags : p[1] # x}
                     /\ tags' = tags
       /\ \A p \in task_tags' : p[1] \in DOMAIN tasks' /\ p[2] \in DOMAIN tags']_vars

\* alice's tag was deleted, and her task is retrieved with no tags
C17_Witness ==
    /\ resp.op = "get_task" /\ resp.status = 200
    /\ resp.data[1].tags = {}
    /\ OwnedBy(tags, resp.caller) = {}
    /\ nextId.tag > 0 /\ nextId.task = 1


---------------------------------------------------------------------------
(* Attaching and detaching a tag *)

\* the tag id resolves to a tag of the owner of task x
TagOfOwner(x, g) == g \in OwnedBy(tags, tasks[x].user_id)

\* C18: add_tag and remove_tag look the tag up among the tags of the task's
\* owner; when it is not found the call reports failure and changes no
\* association; otherwise it reports success and afterwards the task carries
\* the tag exactly once (add) or not at all (remove), every other association
\* being as before.
C18_AddRemoveTag ==
    [][\A h \in Clients : \A x \in OwnedBy(tasks, h.token.sub), g \in TagIds :
         /\ AddTag(h, x, g) =>
               IF TagOfOwner(x, g)
               THEN resp'.status = 200 /\ task_tags' = task_tags \cup {<<x, g>>}
               ELSE resp'.status = 400 /\ task_tags' = task_tags
         /\ RemoveTag(h, x, g) =>
               IF TagOfOwner(x, g)
               THEN resp'.status = 200 /\ task_tags' = task_tags \ {<<x, g>>}
               ELSE resp'.status = 400 /\ task_tags' = task_tags]_vars


---------------------------------------------------------------------------
(* What a created task shows *)

\* the ids of the list that are tags of user u
OwnTagsOf(tag_ids, u) == {g \in Range(tag_ids) : g \in OwnedBy(tags, u)}

\* C19: a task that user u creates with an existing category c and a list S
\* of tag ids is answered 201 and stored with category c and with exactly the
\* tags of S that u owns (unknown ids and ids of other users' tags attach
\* nothing and cause no error); the answer, and every later retrieval of a
\* task, shows the name of the task's category and the names of its tags.
C19_CreatedTaskShown ==
    [][/\ \A h \in Clients :
             (/\ CreateTask(h, CascadeTaskBody)
              /\ h.token.sub \in DOMAIN users
              /\ CascadeTaskBody.category_id \in DOMAIN categories)
             => LET u == h.token.sub
                    x == nextId'.task
                    mine == OwnTagsOf(CascadeTaskBody.tag_ids, u)
                IN /\ resp'.status = 201
                   /\ x \notin DOMAIN tasks
                   /\ tasks'[x].user_id = u
                   /\ tasks'[x].category_id = CascadeTaskBody.category_id
                   /\ Task_tags(task_tags', x) = mine
                   /\ resp'.data[1].id = x
                   /\ resp'.data[1].category =
                         categories[CascadeTaskBody.category_id].name
                   /\ resp'.data[1].tags = {tags[g].name : g \in mine}
       /\ (resp'.op = "get_task" /\ resp'.status = 200) =>
             \A h \in Clients, x \in 1..MaxTasks :
                 GetTask(h, x) =>
                     /\ resp'.data[1].category =
                           IF tasks[x].category_id = NoId THEN Null
                           ELSE categories[tasks[x].category_id].name
                     /\ resp'.data[1].tags =
                           {tags[g].name : g \in Task_tags(task_tags, x)}
                     /\ Task_tags(task_tags, x) \subseteq OwnedBy(tags, h.token.sub)]_vars

\* a task was created with the ids of the caller's tag and of another user's
\* tag, and is shown with its category and the caller's tag only
C19_Witness ==
    /\ resp.op = "create_new_task" /\ resp.status = 201
    /\ resp.data[1].category = "Work"
    /\ Cardinality(resp.data[1].tags) = 1
    /\ \E g1, g2 \in DOMAIN tags :
          /\ {g1, g2} = Range(CascadeTaskBody.tag_ids)
          /\ tags[g1].user_id = resp.caller /\ tags[g2].user_id # resp.caller
          /\ resp.data[1].tags = {tags[g1].name}


---------------------------------------------------------------------------
(* Paging through a list *)

\* sort_by, sort_order: the default, a field with distinct values, and a name
\* that is no attribute of the model (no ORDER BY at all)
SortInputs == {<<"name", "asc">>, <<"created_at", "desc">>, <<"color", "asc">>}

PageSizes == {1, 2}

NextPages ==
    \/ \E n \in {"Work", "Home"} : CreateCategory(ClientOf(AliceId), CategoryBody(n, Absent))
    \/ \E n \in TagNames : CreateTag(ClientOf(AliceId), TagBody(n))
    \/ CreateTask(ClientOf(AliceId), TaskBody("Ship", Absent, NoDate, NoId, NoList))
    \/ \E l \in SortInputs, page \in 1..(MaxCategories + 1), per_page \in PageSizes :
         GetCategories(ClientOf(AliceId), l[1], l[2], page, per_page)
    \/ \E l \in SortInputs, page \in 1..(MaxTags + 1), per_page \in PageSizes :
         GetTags(ClientOf(AliceId), l[1], l[2], page, per_page)
    \/ \E page \in 1..(MaxTasks + 1), per_page \in PageSizes :
         GetTasks(ClientOf(AliceId), page, per_page)

SpecPages == Init /\ [][NextPages]_vars

\* what the requests for pages 1..k can return, one request per page, put
\* together in order; pages[p] is the set of answers page p can get
RECURSIVE Concats(_, _)
Concats(pages, k) ==
    IF k = 0 THEN {<<>>}
    ELSE {a \o b.items : a \in Concats(pages, k - 1), b \in pages[k]}

\* each row of S occurs exactly once in the sequence
EachOnce(seq, S) == Len(seq) = Cardinality(S) /\ Range(seq) = S

\* the pages of a list, given the answers each page can get, partition rows S
Partition(pages, S, per_page) ==
    LET k == Pages(Cardinality(S), per_page)
    IN /\ k * per_page >= Cardinality(S) /\ (k - 1) * per_page < Cardinality(S)
       /\ \A seq \in Concats(pages, k) : EachOnce(seq, S)
       /\ pages[k + 1] = {[items |-> <<>>, total |-> Cardinality(S)]}
       /\ \A p \in 1..k : \A r \in pages[p] : r.total = Cardinality(S)

\* C20: in every store state, for every page size and every sort field and
\* order, the pages 1..ceil(N/P) of a list endpoint put together hold each of
\* the user's N items exactly once, the next page is empty, and total = N.
C20_PagesPartition ==
    \A u \in {AliceId}, l \in SortInputs, P \in PageSizes :
        /\ Partition([p \in 1..(MaxCategories + 1) |->
                         {[items |-> r.items, total |-> r.total] :
                             r \in list_categories(categories, u, l[1], l[2], p, P)}],
                     OwnedBy(categories, u), P)
        /\ Partition([p \in 1..(MaxTags + 1) |->
                         {[items |-> r.items, total |-> r.total] :
                             r \in list_tags(tags, u, l[1], l[2], p, P)}],
                     OwnedBy(tags, u), P)
        /\ Partition([p \in 1..(MaxTasks + 1) |->
                         {[items |-> r.items, total |-> r.total] :
                             r \in list_tasks(tasks, u, p, P)}],
                     OwnedBy(tasks, u), P)

---------------------------------------------------------------------------
(* Searching a user's tasks *)

MaxDays == 1    \* midnights that pass

\* the clock passes midnight
NextDay ==
    /\ Today(now) < MaxDays
    /\ now' = (Today(now) + 1) * SecondsPerDay
    /\ UNCHANGED <<store, nextId, issued, pending, resp>>

\* tasks due on day 0 or day 1 or never, with none, one or both tags
SearchTaskBodies ==
    {TaskBody("Ship", Absent, 0, NoId, <<1, 2>>),
     TaskBody("Ship", READY, 0, 1, <<1>>),
     TaskBody("Plan", Absent, 1, NoId, NoList),
     TaskBody("Plan", READY, NoDate, NoId, <<2>>)}

\* a search with the default sort (created_at, newest first)
Query(title, status, category_id, tag_ids, overdue, from, to, page, per_page) ==
    SearchParams(title, status, category_id, tag_ids, overdue, from, to,
                 "created_at", "desc", page, per_page)

\* searches by title, status, priority, category, tags and due-date range
FilterQueries ==
    {Query(Absent, Absent, NoId, NoList, Absent, NoDate, NoDate, 1, 20),
     Query("ship", Absent, NoId, NoList, Absent, NoDate, NoDate, 1, 20),
     Query(Absent, READY, NoId, NoList, Absent, NoDate, NoDate, 1, 1),
     [Query(Absent, Absent, NoId, NoList, Absent, NoDate, NoDate, 1, 20)
        EXCEPT !.priority = HIGH],
     Query(Absent, Absent, 1, NoList, Absent, NoDate, NoDate, 1, 20),
     Query("ship", READY, 1, NoList, Absent, NoDate, NoDate, 1, 20),
     Query(Absent, Absent, NoId, NoList, Absent, 1, NoDate, 1, 20),
     Query(Absent, Absent, NoId, NoList, Absent, NoDate, 0, 1, 20)}
    \cup {Query(Absent, Absent, NoId, <<1, 2>>, Absent, NoDate, NoDate, page, per_page) :
            page \in {1, 2}, per_page \in {1, 20}}

\* searches by the overdue flag
OverdueQueries ==
    {Query(Absent, Absent, NoId, NoList, o, NoDate, NoDate, 1, 20) : o \in {"true", "false"}}

NextSearch ==
    \/ NextDay
    \/ CreateCategory(ClientOf(AliceId), CategoryBody("Work", Absent))
         /\ nextId'.category <= MaxRows
    \/ \E n \in TagNames : CreateTag(ClientOf(AliceId), TagBody(n))
    \/ \E h \in Clients, b \in SearchTaskBodies : CreateTask(h, b)
    \/ \E h \in Clients, q \in FilterQueries \cup OverdueQueries : SearchUserTasks(h, q)

SpecSearch == Init /\ [][NextSearch]_vars

\* the tasks of user u that satisfy every filter the query supplies
Matching(u, q) ==
    {x \in OwnedBy(tasks, u) :
        /\ Provided(q.title) => ILike(tasks[x].title, q.title)
        /\ Provided(q.status) => tasks[x].status = q.status
        /\ Provided(q.priority) => tasks[x].priority = q.priority
        /\ q.category_id # NoId => tasks[x].category_id = q.category_id
        /\ q.tag_ids # NoList => Task_tags(task_tags, x) \cap Range(q.tag_ids) # {}
        /\ q.due_date_from # NoDate =>
              (tasks[x].due_date # NoDate /\ tasks[x].due_date >= q.due_date_from)
        /\ q.due_date_to # NoDate =>
              (tasks[x].due_date # NoDate /\ tasks[x].due_date <= q.due_date_to)}

\* the answers that the search can give for each page of the query
SearchPages(u, q) ==
    [p \in 1..(MaxTasks + 1) |->
        {[items |-> r.items, total |-> r.total] :
            r \in search_tasks(tasks, task_tags, u, [q EXCEPT !.page = p], now)}]

\* C21: a search as user u returns exactly u's tasks that satisfy every
\* supplied filter (title, status, priority, category id, any of the tag ids,
\* due-date range), each matching task exactly once across the pages, and
\* total is the number of matching tasks, also for tasks with several tags.
C21_SearchExact ==
    [][resp'.op = "search_user_tasks" =>
         \A h \in Clients, q \in FilterQueries :
             SearchUserTasks(h, q) =>
                 LET u == h.token.sub
                     S == Matching(u, q)
                 IN /\ resp'.status = 200
                    /\ resp'.total = Cardinality(S)
                    /\ \A i \in DOMAIN resp'.data : resp'.data[i].id \in S
                    /\ Partition(SearchPages(u, q), S, q.per_page)]_vars

\* the overdue tasks of user u as the statistics count them: the due date is
\* set and before today, and the status is not Ready
OverdueTasks(u) ==
    {x \in OwnedBy(tasks, u) : /\ tasks[x].due_date # NoDate
                               /\ tasks[x].due_date < Today(now)
                               /\ tasks[x].status # READY}

\* the tasks an answer returns
Returned(r) == {r.data[i].id : i \in DOMAIN r.data}

\* C22: a search with the overdue filter set to true returns exactly the
\* caller's tasks whose due date is set, is before today and whose status is
\* not Ready, the tasks that the statistics count as overdue; with the filter
\* set to false it returns exactly the caller's other tasks.
C22_OverdueSearch ==
    [][resp'.op = "search_user_tasks" =>
         \A h \in Clients, q \in OverdueQueries :
             SearchUserTasks(h, q) =>
                 LET u == h.token.sub
                 IN /\ resp'.status = 200
                    /\ Cardinality(OverdueTasks(u)) = get_task_stats(tasks, u, now).overdue_tasks
                    /\ Returned(resp') = IF q.is_overdue = "true" THEN OverdueTasks(u)
                                         ELSE OwnedBy(tasks, u) \ OverdueTasks(u)]_vars

\* the routes that answer with tasks
TaskOps ==
    {"create_new_task", "get_tasks", "search_user_tasks", "get_task", "update_task_by_id"}

\* C23: the is_overdue flag of a task is true exactly when the task's due
\* date is set and strictly before the current date, whatever its status:
\* due yesterday is overdue, due today or later is not, and a task without a
\* due date never is.
C23_OverdueFlag ==
    [][(resp' # resp /\ resp'.op \in TaskOps) =>
         \A i \in DOMAIN resp'.data :
             LET d == resp'.data[i]
             IN d.is_overdue <=> (d.due_date # NoDate /\ d.due_date < Today(now'))]_vars

\* one answer shows a Ready task due yesterday as overdue and a task due today
\* as not overdue
C23_Witness ==
    /\ resp.op = "search_user_tasks" /\ resp.status = 200
    /\ \E i, j \in DOMAIN resp.data :
          /\ resp.data[i].status = READY
          /\ resp.data[i].due_date = Today(now) - 1
          /\ resp.data[i].is_overdue
          /\ resp.data[j].due_date = Today(now)
          /\ ~resp.data[j].is_overdue

---------------------------------------------------------------------------
(* The default lifetime of a token *)

\* C24: a token that register or login issues (no explicit ttl) expires 12
\* hours after its issue time under the normal configuration.
C24_DefaultLifetime ==
    (resp.op \in {"register", "login"} /\ resp.token # NoToken) =>
        resp.token.exp = resp.token.iat + 12 * SecondsPerHour

---------------------------------------------------------------------------
(* Replacing the tags of a task *)

\* tag_ids of PUT /tasks/<id>: not given, empty, one id, two ids in either
\* order, an id that no tag has
RetagLists == {NoList, <<>>, <<1>>, <<2>>, <<1, 2>>, <<2, 1>>, <<MaxTags + 1>>}

\* a body with tag_ids S; a body without tag_ids changes the title
RetagBody(S) == TaskBody(IF S = NoList THEN "Plan" ELSE Absent, Absent, NoDate, NoId, S)

NextRetag ==
    \/ \E h \in Clients, n \in TagNames : CreateTag(h, TagBody(n))
    \/ \E S \in {NoList, <<1, 2>>} :
         CreateTask(ClientOf(AliceId), TaskBody("Ship", Absent, NoDate, NoId, S))
    \/ \E x \in 1..MaxTasks, S \in RetagLists :
         UpdateTaskById(ClientOf(AliceId), x, RetagBody(S))
    \/ \E h \in Clients, x \in 1..MaxTasks : GetTask(h, x)

SpecRetag == Init /\ [][NextRetag]_vars

---------------------------------------------------------------------------
(* Every request that writes, by two users and an administrator *)

\* the clients of alice and bob
UserClients == {h \in Clients : h.token.sub # RootId}

\* PUT /tasks/<id>: another category, other tags, no tags
WriteTaskUpdates ==
    {TaskBody(Absent, Absent, NoDate, 2, NoList),
     TaskBody(Absent, Absent, NoDate, NoId, <<2>>),
     TaskBody(Absent, Absent, NoDate, NoId, <<>>)}

NextWrites ==
    \/ \E h \in UserClients :
         Creator(h, nextId.category) /\ CreateCategory(h, CategoryBody("Work", Absent))
    \/ \E h \in UserClients :
         /\ Creator(h, nextId.tag)
         /\ CreateTag(h, TagBody(IF nextId.tag = 0 THEN "urgent" ELSE "later"))
    \/ \E h \in UserClients : Creator(h, nextId.task) /\ CreateTask(h, CascadeTaskBody)
    \/ \E h \in UserClients, c \in 1..MaxCategories :
         UpdateCategoryById(h, c, CategoryBody("Home", Absent))
    \/ \E h \in UserClients, g \in 1..MaxTags : UpdateTagById(h, g, TagBody("later"))
    \/ \E h \in UserClients, x \in 1..MaxTasks, b \in WriteTaskUpdates :
         UpdateTaskById(h, x, b)
    \/ \E h \in UserClients, c \in 1..MaxCategories : DeleteCategoryById(h, c)
    \/ \E h \in UserClients, g \in 1..MaxTags : DeleteTagById(h, g)
    \/ \E h \in UserClients, x \in 1..MaxTasks : DeleteTaskById(h, x)
    \/ \E h \in UserClients, x \in 1..MaxTasks, g \in 1..MaxTags : AddTag(h, x, g)
    \/ \E h \in UserClients, x \in 1..MaxTasks, g \in 1..MaxTags : RemoveTag(h, x, g)
    \/ \E h \in UserClients : DeleteMe(h)
    \/ \E h \in Clients, u \in {AliceId, BobId} : DeleteUserById(h, u)

SpecWrites == InitCascade /\ [][NextWrites]_vars

\* C26: after any sequence of create, update, delete and tag add/remove
\* requests every Task-Tag association links a task and a tag of the same
\* owner, and no request changes the owner of an existing task or tag.
C26_SameOwner ==
    [][/\ \A p \in task_tags' : tasks'[p[1]].user_id = tags'[p[2]].user_id
       /\ \A x \in DOMAIN tasks \cap DOMAIN tasks' : tasks'[x].user_id = tasks[x].user_id
       /\ \A g \in DOMAIN tags \cap DOMAIN tags' : tags'[g].user_id = tags[g].user_id]_vars

\* each user owns a tag, a task carries a tag, and a request to attach a tag
\* was refused although every tag id it could name exists
C26_Witness ==
    /\ resp.op = "add_tag" /\ resp.status = 400
    /\ DOMAIN tags = 1..MaxTags
    /\ \E g1, g2 \in DOMAIN tags : tags[g1].user_id # tags[g2].user_id
    /\ task_tags # {}

\* C27: in every reachable state every Task-Tag association references an
\* existing task and an existing tag, there is at most one association per
\* (task, tag) pair, every task's category reference is null or names an
\* existing category, and every category, tag and task has an existing owner.
C27_ReferentialIntegrity ==
    /\ \A p \in task_tags : p[1] \in DOMAIN tasks /\ p[2] \in DOMAIN tags
    /\ \A x \in DOMAIN tasks, g \in DOMAIN tags :
          Cardinality({p \in task_tags : p[1] = x /\ p[2] = g}) <= 1
    /\ \A x \in DOMAIN tasks : CategoryExists(categories, tasks[x].category_id)
    /\ \A c \in DOMAIN categories : categories[c].user_id \in DOMAIN users
    /\ \A g \in DOMAIN tags : tags[g].user_id \in DOMAIN users
    /\ \A x \in DOMAIN tasks : tasks[x].user_id \in DOMAIN users

\* a user was deleted; a task of the other user that was created with a
\* category is left, without category and with a tag
C27_Witness ==
    /\ resp.op \in {"delete_current_user", "delete_user_by_id"} /\ resp.status = 200
    /\ \E x \in DOMAIN tasks :
          /\ tasks[x].category_id = NoId
          /\ Task_tags(task_tags, x) # {}
          /\ DOMAIN categories = {}
          /\ nextId.category = 1

\* the rows and associations of user B are as they were
Untouched(B) ==
    /\ \A c \in OwnedBy(categories, B) :
          c \in DOMAIN categories' /\ categories'[c] = categories[c]
    /\ \A g \in OwnedBy(tags, B) : g \in DOMAIN tags' /\ tags'[g] = tags[g]
    /\ \A x \in OwnedBy(tasks, B) : x \in DOMAIN tasks' /\ tasks'[x] = tasks[x]
    /\ \A p \in task_tags : p[1] \in OwnedBy(tasks, B) => p \in task_tags'

\* C28: a create, update, delete or tag add/remove request of a user A who is
\* not an administrator never changes a field of, and never deletes, a
\* category, tag, task or association owned by another user B.
C28_OthersUntouched ==
    [][\A A \in DOMAIN users : \A B \in DOMAIN users \ {A} :
          (resp'.caller = A /\ users[A].role # ADMIN) => Untouched(B)]_vars

---------------------------------------------------------------------------
(* Roles *)

\* registrations that ask for the role of an administrator or of a user
RoleRegisterBodies ==
    {RegisterBody(u, "al@x.com", "password123", r, "password123") :
        u \in {"alice"}, r \in RoleEnum}

RoleLoginBodies == {[username |-> u, password |-> "password123"] : u \in {"root", "alice"}}

\* updates whose body has a member "role" next to the members of UserUpdate
RoleUpdateBodies ==
    {[username |-> Absent, email |-> Absent, password |-> Absent, role |-> r] :
        r \in RoleEnum}
    \cup {[username |-> "bob@x.com", email |-> Absent, password |-> Absent,
           role |-> ADMIN]}

NextRoles ==
    \/ \E b \in RoleRegisterBodies : Register(b)
    \/ \E b \in RoleLoginBodies : Login(b)
    \/ \E h \in PlainHeaders : GetMe(h)
    \/ \E h \in PlainHeaders, b \in RoleUpdateBodies : UpdateMe(h, b)
    \/ \E h \in PlainHeaders, u \in 1..MaxUsers, b \in RoleUpdateBodies :
         UpdateUserById(h, u, b)
    \/ \E h \in PlainHeaders : DeleteMe(h)
    \/ \E h \in PlainHeaders, u \in 1..MaxUsers : DeleteUserById(h, u)

SpecRoles == InitUsers /\ [][NextRoles]_vars

\* C29: no request changes the role of a user: a registration creates a user
\* of role "user" whatever its body says, and neither PUT /me nor the
\* administrator's PUT /users/<id> sets the role, so no user becomes an
\* administrator through the API.
C29_RolesFixed ==
    [][/\ \A u \in DOMAIN users \cap DOMAIN users' : users'[u].role = users[u].role
       /\ \A u \in DOMAIN users' \ DOMAIN users : users'[u].role = USER
       /\ {u \in DOMAIN users' : users'[u].role = ADMIN}
             \subseteq {u \in DOMAIN users : users[u].role = ADMIN}]_vars

\* a user took the new username of an update whose body also named a role,
\* and is shown with the role of a user
C29_Witness ==
    /\ resp.op \in {"update_current_user", "update_user_by_id"} /\ resp.status = 200
    /\ resp.data[1].username = "bob@x.com"
    /\ resp.data[1].role = USER
    /\ \E u \in DOMAIN users : users[u].role = ADMIN

---------------------------------------------------------------------------
(* POST /tags and PUT /tags/<id> as two steps of a worker, so that requests *)
(* interleave: the handler's duplicate-name check, and the commit           *)

\* create_new_tag up to and including the duplicate check
CreateTagStart(w, h, body) ==
    /\ pending[w].pc = "idle"
    /\ UNCHANGED <<store, nextId, now, issued>>
    /\ LET uid == login_required(users, h, now)
           b == SilentJson(body)
       IN IF uid = NoId
          THEN /\ Answer("create_new_tag", 401, FALSE, NoId, <<>>, NoToken)
               /\ UNCHANGED pending
          ELSE IF ~TagCreate(b)
          THEN /\ Answer("create_new_tag", 400, TRUE, uid, <<>>, NoToken)
               /\ UNCHANGED pending
          ELSE IF get_tag_by_name(tags, b.name, uid) # {}
          THEN /\ Answer("create_new_tag", 409, TRUE, uid, <<>>, NoToken)
               /\ UNCHANGED pending
          ELSE /\ pending' = [pending EXCEPT ![w] =
                                [pc |-> "create_tag", user_id |-> uid, name |-> b.name,
                                 tag |-> NoId]]
               /\ UNCHANGED resp

\* create_tag: add and commit; the table has no constraint on the name
CreateTagCommit(w) ==
    /\ pending[w].pc = "create_tag"
    /\ nextId.tag < MaxTags
    /\ UNCHANGED <<users, categories, tasks, task_tags, now, issued>>
    /\ LET id == nextId.tag + 1
       IN /\ tags' = (id :> Tag(pending[w].user_id, pending[w].name)) @@ tags
          /\ nextId' = [nextId EXCEPT !.tag = id]
          /\ Answer("create_new_tag", 201, TRUE, pending[w].user_id,
                    <<Tag_to_dict(tags', id)>>, NoToken)
    /\ pending' = [pending EXCEPT ![w] = Idle]

\* update_tag_by_id up to and including the duplicate check
UpdateTagStart(w, h, tag_id, body) ==
    /\ pending[w].pc = "idle"
    /\ UNCHANGED <<store, nextId, now, issued>>
    /\ LET uid == login_required(users, h, now)
           tag == get_tag_by_id(tags, tag_id, uid)
           b == SilentJson(body)
       IN IF uid = NoId
          THEN /\ Answer("update_tag_by_id", 401, FALSE, NoId, <<>>, NoToken)
               /\ UNCHANGED pending
          ELSE IF tag = NoId
          THEN /\ Answer("update_tag_by_id", 404, TRUE, uid, <<>>, NoToken)
               /\ UNCHANGED pending
          ELSE IF ~TagUpdate(b)
          THEN /\ Answer("update_tag_by_id", 400, TRUE, uid, <<>>, NoToken)
               /\ UNCHANGED pending
          ELSE IF Provided(b.name) /\ b.name # tags[tag].name
                  /\ get_tag_by_name(tags, b.name, uid) # {}
          THEN /\ Answer("update_tag_by_id", 409, TRUE, uid, <<>>, NoToken)
               /\ UNCHANGED pending
          ELSE /\ pending' = [pending EXCEPT ![w] =
                                [pc |-> "update_tag", user_id |-> uid, name |-> b.name,
                                 tag |-> tag]]
               /\ UNCHANGED resp

\* update_tag: set the name and commit
UpdateTagCommit(w) ==
    /\ pending[w].pc = "update_tag"
    /\ UNCHANGED <<users, categories, tasks, task_tags, nextId, now, issued>>
    /\ LET tag == pending[w].tag
       IN /\ tags' = [tags EXCEPT ![tag].name = IF Provided(pending[w].name)
                                                 THEN pending[w].name ELSE @]
          /\ Answer("update_tag_by_id", 200, TRUE, pending[w].user_id,
                    <<Tag_to_dict(tags', tag)>>, NoToken)
    /\ pending' = [pending EXCEPT ![w] = Idle]

NextTagRace ==
    \/ \E w \in Workers, h \in Clients, n \in TagNames : CreateTagStart(w, h, TagBody(n))
    \/ \E w \in Workers : CreateTagCommit(w)
    \/ \E w \in Workers, h \in Clients, g \in AllTagIds, n \in TagNames :
         UpdateTagStart(w, h, g, TagBody(n))
    \/ \E w \in Workers : UpdateTagCommit(w)

SpecTagRace == Init /\ [][NextTagRace]_vars

\* C30: when two requests of one user that create a tag with, or rename a tag
\* to, the same name are processed concurrently, each passing its
\* duplicate-name check before the other writes, at most one of them succeeds:
\* the user never has two tags of the same name.
C30_NoDuplicateTagName ==
    \A g1 \in DOMAIN tags : \A g2 \in DOMAIN tags \ {g1} :
        tags[g1].user_id = tags[g2].user_id => tags[g1].name # tags[g2].name

====
